---- MODULE Spec2Model ----
(***************************************************************************)
(* Cockatrice-to-Forge card converter: the ability-text compiler of        *)
(* scripts/convert_cockatrice_to_forge_advanced_2.py (AbilityParser and    *)
(* convert_card) and the mana-cost tokenizer parse_mana_cost.              *)
(*                                                                         *)
(* Texts are TLA+ strings and are handled character by character, as the   *)
(* Python code handles them.  TLA+ strings are ASCII, so the two non-ASCII *)
(* characters the code tests for are written with one-character stand-ins  *)
(* that occur nowhere else in the model's texts: the em dash U+2014 is     *)
(* EmDash and the bullet U+2022 is Bullet.                                 *)
(***************************************************************************)
EXTENDS Integers, Sequences, FiniteSets, TLC

\* ------------------------------------------------------------------------
\* Characters and Python's string primitives
\* ------------------------------------------------------------------------

EmDash == "~"

Bullet == "*"

UpperChars == "ABCDEFGHIJKLMNOPQRSTUVWXYZ"

LowerChars == "abcdefghijklmnopqrstuvwxyz"

DigitChars == "0123456789"

\* The letters of U+0080..U+00FF that str.lower() changes, and what it makes of each.
Latin1Upper == "ÀÁÂÃÄÅÆÇÈÉÊËÌÍÎÏÐÑÒÓÔÕÖØÙÚÛÜÝÞ"

Latin1Lower == "àáâãäåæçèéêëìíîïðñòóôõöøùúûüýþ"

\* The blanks of Python's str type up to U+00FF that have no escape in a string of
\* this module: U+000B, U+001C, U+001D, U+001E, U+001F, U+0085 and U+00A0.
OtherSpaces == {"", "", "", "", "", "", " "}

\* s[i] (1-based) as a one-character string; "" outside the string, where the code
\* never reads (its tests on an index are guarded by the length).
Ch(s, i) == IF i >= 1 /\ i <= Len(s) THEN SubSeq(s, i, i) ELSE ""

\* c in chars, for a one-character string c.
CharIn(c, chars) == \E k \in 1..Len(chars) : Ch(chars, k) = c

\* A character that `\s` matches and str.strip() removes, up to U+00FF.  Python
\* also counts the blanks from U+1680 on (U+2003, U+3000, ...); a string of this
\* module holds no character above U+00FF.
IsSpace(c) == c \in {" ", "\n", "\t", "\r", "\f"} \/ c \in OtherSpaces

\* \d and [0-9] of Python's re module; up to U+00FF they match the same characters.
IsDigit(c) == CharIn(c, DigitChars)

\* c.isdigit(), which up to U+00FF is also true for the superscript digits U+00B2,
\* U+00B3 and U+00B9.
isdigit(c) == IsDigit(c) \/ CharIn(c, "²³¹")

IsUpper(c) == CharIn(c, UpperChars)

\* \w of Python's re module, up to U+00FF: beyond ASCII the letters, with those that
\* have no other case (U+00AA, U+00B5, U+00BA, U+00DF, U+00FF), the superscript
\* digits and the fractions.
IsWordChar(c) ==
    \/ CharIn(c, UpperChars) \/ CharIn(c, LowerChars) \/ IsDigit(c) \/ c = "_"
    \/ CharIn(c, Latin1Upper) \/ CharIn(c, Latin1Lower)
    \/ CharIn(c, "ªµºßÿ²³¹¼½¾")

Min(S) == CHOOSE x \in S : \A y \in S : x <= y

Max(S) == CHOOSE x \in S : \A y \in S : x >= y

\* The least element of a set of positive indices, 0 when it is empty.
MinOrZero(S) == IF S = {} THEN 0 ELSE Min(S)

\* The greatest element of a set of positive indices, 0 when it is empty.
MaxOrZero(S) == IF S = {} THEN 0 ELSE Max(S)

\* s[a:b] of Python with 1-based inclusive ends; empty when a > b.
Slice(s, a, b) == IF a > b THEN "" ELSE SubSeq(s, a, b)

\* s[:n]
Prefix(s, n) == IF Len(s) <= n THEN s ELSE SubSeq(s, 1, n)

\* s[i:] with a 1-based start.
From(s, i) == Slice(s, i, Len(s))

\* sub occurs in s at index i.
MatchAt(s, sub, i) == i >= 1 /\ i + Len(sub) - 1 <= Len(s) /\ SubSeq(s, i, i + Len(sub) - 1) = sub

\* sub in s
Contains(s, sub) == \E i \in 1..(Len(s) - Len(sub) + 1) : SubSeq(s, i, i + Len(sub) - 1) = sub

\* s.startswith(p)
StartsWith(s, p) == MatchAt(s, p, 1)

\* First index >= from where sub occurs in s, 0 when there is none.
Find(s, sub, from) ==
    MinOrZero({i \in from..(Len(s) - Len(sub) + 1) : SubSeq(s, i, i + Len(sub) - 1) = sub})

RECURSIVE LeadingSpaces(_, _)
\* Number of whitespace characters of s starting at index i.
LeadingSpaces(s, i) ==
    IF i <= Len(s) /\ IsSpace(Ch(s, i)) THEN 1 + LeadingSpaces(s, i + 1) ELSE 0

RECURSIVE TrailingSpaces(_, _)
\* Number of whitespace characters of s ending at index i.
TrailingSpaces(s, i) ==
    IF i >= 1 /\ IsSpace(Ch(s, i)) THEN 1 + TrailingSpaces(s, i - 1) ELSE 0

\* s.strip()
Strip(s) ==
    IF LeadingSpaces(s, 1) = Len(s) THEN ""
    ELSE SubSeq(s, LeadingSpaces(s, 1) + 1, Len(s) - TrailingSpaces(s, Len(s)))

LowerChar(c) ==
    IF IsUpper(c) THEN Ch(LowerChars, CHOOSE k \in 1..26 : Ch(UpperChars, k) = c)
    ELSE IF CharIn(c, Latin1Upper)
         THEN Ch(Latin1Lower, CHOOSE k \in 1..Len(Latin1Upper) : Ch(Latin1Upper, k) = c)
         ELSE c

RECURSIVE Lower(_)
\* s.lower(): character by character, the string being halved at each step.
Lower(s) ==
    IF Len(s) <= 1 THEN LowerChar(s)
    ELSE Lower(SubSeq(s, 1, Len(s) \div 2)) \o Lower(SubSeq(s, Len(s) \div 2 + 1, Len(s)))

\* The indices where old occurs in s.
Occurrences(s, old) ==
    {i \in 1..(Len(s) - Len(old) + 1) : SubSeq(s, i, i + Len(old) - 1) = old}

RECURSIVE Leftmost(_, _, _)
\* The first of the occurrences `rest`, and those a left-to-right scan takes after
\* its n characters.
FirstAndLater(occ, n, rest) ==
    IF rest = {} THEN {} ELSE {Min(rest)} \cup Leftmost(occ, n, Min(rest) + n)

\* The occurrences a left-to-right scan takes from index `from` on.
Leftmost(occ, n, from) == FirstAndLater(occ, n, {i \in occ : i >= from})

\* No two of the occurrences, each n characters long, overlap.
Apart(occ, n) == \A i \in occ : \A d \in 1..(n - 1) : (i + d) \notin occ

\* The occurrences str.replace replaces: all of them when none overlaps another,
\* else those a left-to-right scan takes.
Taken(occ, n) == IF Apart(occ, n) THEN occ ELSE Leftmost(occ, n, 1)

\* What str.replace leaves of the character at index i: the new text where a
\* replaced occurrence starts, nothing inside one, the character elsewhere.
ReplacedChar(s, i, n, new, taken) ==
    IF i \in taken THEN new
    ELSE IF \E d \in 1..(n - 1) : (i - d) \in taken THEN ""
    ELSE Ch(s, i)

RECURSIVE ReplaceRange(_, _, _, _, _, _)
\* What str.replace leaves of s[a..b], the range being halved at each step.
ReplaceRange(s, a, b, n, new, taken) ==
    IF a > b THEN ""
    ELSE IF a = b THEN ReplacedChar(s, a, n, new, taken)
    ELSE ReplaceRange(s, a, (a + b) \div 2, n, new, taken)
         \o ReplaceRange(s, (a + b) \div 2 + 1, b, n, new, taken)

\* s.replace(old, new), old non-empty: non-overlapping occurrences, left to right.
Replace(s, old, new) ==
    ReplaceRange(s, 1, Len(s), Len(old), new, Taken(Occurrences(s, old), Len(old)))

RECURSIVE CollapseSpaces(_)
\* re.sub(r'\s+', ' ', s)
CollapseSpaces(s) ==
    IF s = "" THEN ""
    ELSE IF IsSpace(Ch(s, 1))
         THEN " " \o CollapseSpaces(From(s, 1 + LeadingSpaces(s, 1)))
         ELSE Ch(s, 1) \o CollapseSpaces(From(s, 2))

RECURSIVE JoinRange(_, _, _, _)
\* sep.join(parts[a..b]), the range being halved at each step.
JoinRange(parts, sep, a, b) ==
    IF a = b THEN parts[a]
    ELSE JoinRange(parts, sep, a, (a + b) \div 2) \o sep
         \o JoinRange(parts, sep, (a + b) \div 2 + 1, b)

\* sep.join(parts)
Join(parts, sep) == IF parts = <<>> THEN "" ELSE JoinRange(parts, sep, 1, Len(parts))

\* ------------------------------------------------------------------------
\* Module-level helpers of the converter
\* ------------------------------------------------------------------------

\* None, and every other value Python's "if x:" takes as false for a string.
None == ""

ColourChars == "WUBRG"

\* Fault injection for ManaStepAt: the two length tests are off by one, so a digit or
\* a hybrid symbol that ends the string is not seen as such.
ManaStepAtShort(mana_str, i) ==
    IF i + 3 <= Len(mana_str) /\ CharIn(Ch(mana_str, i), ColourChars)
       /\ Ch(mana_str, i + 1) = "/" /\ CharIn(Ch(mana_str, i + 2), ColourChars)
    THEN [tok |-> SubSeq(mana_str, i, i + 2), next |-> i + 3]
    ELSE IF CharIn(Ch(mana_str, i), ColourChars) \/ isdigit(Ch(mana_str, i))
         THEN [tok |-> Ch(mana_str, i), next |-> i + 1]
         ELSE [tok |-> "", next |-> i + 1]

\* One iteration of the while loop of parse_mana_cost at index i (1-based):
\* the token it appends ("" when it appends nothing) and the next index.
ManaStepAt(mana_str, i) ==
    LET n == Len(mana_str)
        c0 == Ch(mana_str, i)
    IN IF i + 2 <= n /\ isdigit(c0) /\ CharIn(Ch(mana_str, i + 1), ColourChars)
          /\ Ch(mana_str, i + 2) = "/"
       THEN [tok |-> c0, next |-> i + 1]
       ELSE IF i + 2 <= n /\ CharIn(c0, ColourChars) /\ Ch(mana_str, i + 1) = "/"
               /\ CharIn(Ch(mana_str, i + 2), ColourChars)
            THEN [tok |-> SubSeq(mana_str, i, i + 2), next |-> i + 3]
            ELSE IF CharIn(c0, ColourChars) \/ isdigit(c0)
                 THEN [tok |-> c0, next |-> i + 1]
                 ELSE [tok |-> "", next |-> i + 1]

RECURSIVE ManaTokens(_, _)
\* The list `result` built by the loop of parse_mana_cost from index i on.
ManaTokens(mana_str, i) ==
    IF i > Len(mana_str) THEN <<>>
    ELSE LET st == ManaStepAt(mana_str, i)
         IN (IF st.tok = "" THEN <<>> ELSE <<st.tok>>) \o ManaTokens(mana_str, st.next)

parse_mana_cost(mana_str) ==
    IF mana_str = "" THEN "" ELSE Join(ManaTokens(mana_str, 1), " ")

RECURSIVE SplitOn(_, _)
\* s split at its first occurrence of sep, at index i, and at every later one; s
\* alone when i = 0.
SplitOnAt(s, sep, i) ==
    IF i = 0 THEN <<s>> ELSE <<Slice(s, 1, i - 1)>> \o SplitOn(From(s, i + Len(sep)), sep)

\* s.split(sep), sep non-empty.
SplitOn(s, sep) == SplitOnAt(s, sep, Find(s, sep, 1))

\* ' - '.split parts of a type line: the main type, then the subtypes.
TypeOfParts(parts) == Strip(parts[1]) \o " " \o Strip(Join(Tail(parts), " "))

\* parse_card_type on the stripped line with its whitespace collapsed.
TypeLine(t) == IF Contains(t, " - ") THEN TypeOfParts(SplitOn(t, " - ")) ELSE t

parse_card_type(type_str) ==
    IF type_str = "" THEN ""
    ELSE TypeLine(CollapseSpaces(Strip(type_str)))

escape_forge_text(text) ==
    IF text = "" THEN "" ELSE Replace(Replace(text, "\n", "\\n"), EmDash, "-")

\* text.replace('&apos;', "'").replace('&quot;', '"').replace('&amp;', '&')
DecodeEntities(text) ==
    Replace(Replace(Replace(text, "&apos;", "'"), "&quot;", "\""), "&amp;", "&")

\* ------------------------------------------------------------------------
\* AbilityParser: the functions that read text and change no state
\* ------------------------------------------------------------------------

RECURSIVE DigitRun(_, _)
\* Number of decimal digits of s starting at index i.
DigitRun(s, i) == IF i <= Len(s) /\ IsDigit(Ch(s, i)) THEN 1 + DigitRun(s, i + 1) ELSE 0

\* `\s+keyword` matches at index e.
KeywordAfter(text, keyword, e) ==
    LeadingSpaces(text, e) >= 1 /\ MatchAt(text, keyword, e + LeadingSpaces(text, e))

\* A match of r'(\d+)' or, with a keyword, of rf'(\d+)\s+{keyword}' starts at index i
\* with the whole run of digits that starts there.
NumberAt(text, keyword, i) ==
    /\ IsDigit(Ch(text, i))
    /\ ~IsDigit(Ch(text, i - 1))
    /\ (keyword = "" \/ KeywordAfter(text, keyword, i + DigitRun(text, i)))

\* re.search(r'(\d+)', text) or, with a keyword, re.search(rf'(\d+)\s+{keyword}', text):
\* the start of the group of the leftmost match, 0 when there is none.  A run of
\* digits matches from its first digit, so the leftmost match starts a run.
NumberMatch(text, keyword) == MinOrZero({i \in 1..Len(text) : NumberAt(text, keyword, i)})

\* The rest of extract_number, given the match m and text.lower().
NumberOrWord(text, m, lower) ==
    IF m # 0 THEN SubSeq(text, m, m + DigitRun(text, m) - 1)
    ELSE IF Contains(lower, "a ") \/ Contains(lower, "one ") THEN "1"
    ELSE IF Contains(lower, "two ") THEN "2"
    ELSE IF Contains(lower, "three ") THEN "3"
    ELSE "1"

extract_number(text, keyword) == NumberOrWord(text, NumberMatch(text, keyword), Lower(text))

\* The chain of tests of extract_counter_type on text.lower().
CounterTypeOf(lower) ==
    IF Contains(lower, "+1/+1") THEN "P1P1"
    ELSE IF Contains(lower, "-1/-1") THEN "M1M1"
    ELSE IF Contains(lower, "drunken") THEN "DRUNKEN"
    ELSE IF Contains(lower, "stun") THEN "STUN"
    ELSE IF Contains(lower, "obsession") THEN "OBSESSION"
    ELSE IF Contains(lower, "charge") THEN "CHARGE"
    ELSE IF Contains(lower, "loyalty") THEN "LOYALTY"
    ELSE IF Contains(lower, "haze") THEN "HAZE"
    ELSE IF Contains(lower, "lost family") THEN "LOST_FAMILY"
    ELSE "GENERIC"

extract_counter_type(text) == CounterTypeOf(Lower(text))

\* The Tap rule of parse_effect_to_ability.
TapRule(lower) == Contains(lower, "tap") /\ Contains(lower, "target")

\* The two LoseLife rules of parse_effect_to_ability share this test.
LosesLifeRule(lower) == Contains(lower, "loses") /\ Contains(lower, "life")

\* The token script chosen by the Token rule of parse_effect_to_ability.
TokenScript(lower) ==
    IF Contains(lower, "food") THEN "food"
    ELSE IF Contains(lower, "treasure") THEN "treasure"
    ELSE IF Contains(lower, "beer") THEN "beer"
    ELSE IF Contains(lower, "gnome") THEN "gnome"
    ELSE IF Contains(lower, "goblin") THEN "goblin"
    ELSE "generic"

\* The chain of rules of parse_effect_to_ability, given text.lower().strip().
EffectOf(text, lower) ==
    IF Contains(lower, "you gain") /\ Contains(lower, "life")
    THEN "GainLife | Defined$ You | LifeAmount$ " \o extract_number(text, "life")
    ELSE IF LosesLifeRule(lower) /\ Contains(lower, "opponent")
    THEN "LoseLife | Defined$ EachOpponent | LifeAmount$ " \o extract_number(text, "life")
    ELSE IF LosesLifeRule(lower)
    THEN "LoseLife | Defined$ You | LifeAmount$ " \o extract_number(text, "life")
    ELSE IF Contains(lower, "draw")
    THEN "Draw | Defined$ You | NumCards$ " \o extract_number(text, "card")
    ELSE IF Contains(lower, "deals") /\ Contains(lower, "damage")
    THEN IF Contains(lower, "target")
         THEN "DealDamage | NumDmg$ " \o extract_number(text, "damage")
              \o " | ValidTgts$ Creature.Other,Player | TgtPrompt$ Select target"
         ELSE "DealDamage | NumDmg$ " \o extract_number(text, "damage")
              \o " | Defined$ TriggeredPlayer"
    ELSE IF Contains(lower, "create") /\ Contains(lower, "token")
    THEN "Token | TokenScript$ " \o TokenScript(lower) \o " | TokenAmount$ "
         \o extract_number(text, "token")
    ELSE IF Contains(lower, "discard")
    THEN IF Contains(lower, "target opponent")
         THEN "Discard | Mode$ TgtChoose | NumCards$ 1 | ValidTgts$ Player.Opponent"
         ELSE "Discard | Mode$ TgtChoose | NumCards$ 1"
    ELSE IF Contains(lower, "mill")
    THEN "Mill | NumCards$ " \o extract_number(text, "card") \o " | Defined$ You"
    ELSE IF Contains(lower, "counter") /\ Contains(lower, "spell")
    THEN "Counter | Destination$ Hand"
    ELSE IF TapRule(lower)
    THEN "Tap | ValidTgts$ Creature | TgtPrompt$ Select target creature"
    ELSE IF Contains(lower, "untap")
    THEN "Untap | ValidTgts$ Permanent | TgtPrompt$ Select target permanent"
    ELSE IF Contains(lower, "scry")
    THEN "Scry | ScryNum$ " \o extract_number(text, "")
    ELSE IF Contains(lower, "surveil")
    THEN "Surveil | NumCards$ " \o extract_number(text, "")
    ELSE IF Contains(lower, "put") /\ Contains(lower, "counter")
    THEN "PutCounter | CounterType$ " \o extract_counter_type(text)
         \o " | CounterNum$ " \o extract_number(text, "counter") \o " | Defined$ Targeted"
    ELSE IF Contains(lower, "sacrifice")
    THEN IF Contains(lower, "creature")
         THEN "Sacrifice | SacValid$ Creature"
         ELSE "Sacrifice | SacValid$ Card"
    ELSE IF Contains(lower, "search") /\ Contains(lower, "library")
    THEN "ChangeZone | Origin$ Library | Destination$ Hand | ChangeType$ Card | ChangeNum$ 1 | Mandatory$ False"
    ELSE IF Contains(lower, "return") /\ Contains(lower, "graveyard")
            /\ Contains(lower, "battlefield")
    THEN "ChangeZone | Origin$ Graveyard | Destination$ Battlefield | ChangeType$ Creature"
    ELSE None

\* Fault injection for parse_effect_to_ability: the Draw rule is tried before every
\* other rule.
parse_effect_draw_first(text) ==
    IF Contains(Strip(Lower(text)), "draw")
    THEN "Draw | Defined$ You | NumCards$ " \o extract_number(text, "card")
    ELSE EffectOf(text, Strip(Lower(text)))

parse_effect_to_ability(text) == EffectOf(text, Strip(Lower(text)))

\* re.sub(r'^(whenever|when)\s+', '', lower)
StripTriggerWord(lower) ==
    IF StartsWith(lower, "whenever") /\ LeadingSpaces(lower, 9) >= 1
    THEN From(lower, 9 + LeadingSpaces(lower, 9))
    ELSE IF StartsWith(lower, "when") /\ LeadingSpaces(lower, 5) >= 1
         THEN From(lower, 5 + LeadingSpaces(lower, 5))
         ELSE lower

\* The "Beginning of phase patterns" part of extract_trigger.
PhaseTrigger(lower) ==
    IF Contains(lower, "beginning of") \/ Contains(lower, "upkeep") \/ Contains(lower, "end of")
    THEN IF Contains(lower, "upkeep") THEN "Mode$ Phase | Phase$ Upkeep"
         ELSE IF Contains(lower, "combat") THEN "Mode$ Phase | Phase$ BeginCombat"
         ELSE IF Contains(lower, "end step") \/ Contains(lower, "end of turn")
              THEN "Mode$ Phase | Phase$ EndOfTurn"
              ELSE None
    ELSE None

\* Fault injection for AttacksRule: the rule looks for another word.
AttacksRuleOtherWord(clean) == Contains(clean, "attacked")

\* The trigger rule of extract_trigger for a clause that names an attack.
AttacksRule(clean) == Contains(clean, "attacks")

\* The chain of rules of extract_trigger, given trigger_text.lower() and the clause
\* left of it once the leading trigger word is removed.
TriggerOf(lower, clean) ==
    IF Contains(lower, "whenever") \/ Contains(lower, "when")
    THEN IF Contains(clean, "enters the battlefield")
         THEN "Mode$ ChangesZone | Destination$ Battlefield | ValidCard$ Card.Self | TriggerZones$ Battlefield"
         ELSE IF Contains(clean, "dies") \/ Contains(clean, "put into a graveyard")
         THEN "Mode$ ChangesZone | Origin$ Battlefield | Destination$ Graveyard | ValidCard$ Card.Self | TriggerZones$ Graveyard"
         ELSE IF AttacksRule(clean)
         THEN "Mode$ Attacks | ValidCard$ Card.Self | TriggerZones$ Battlefield"
         ELSE IF Contains(clean, "discards")
                 /\ (Contains(clean, "you") \/ Contains(clean, "opponent"))
         THEN "Mode$ Discard | TriggerZones$ Battlefield"
         ELSE IF Contains(clean, "creature")
                 /\ (Contains(clean, "enters") \/ Contains(clean, "etb"))
         THEN "Mode$ ChangesZone | Destination$ Battlefield | TriggerZones$ Battlefield"
         ELSE IF Contains(clean, "cast")
         THEN "Mode$ SpellCast | ValidCard$ Card.YouOwn | TriggerZones$ Battlefield"
         ELSE IF Contains(clean, "taps") \/ Contains(clean, "tapped")
         THEN "Mode$ Taps | TriggerZones$ Battlefield"
         ELSE IF Contains(clean, "sacrifice")
         THEN "Mode$ ChangesZone | Destination$ Graveyard | TriggerZones$ Graveyard"
         ELSE PhaseTrigger(lower)
    ELSE PhaseTrigger(lower)

\* extract_trigger on an already lowered text.
TriggerOfLower(lower) == TriggerOf(lower, StripTriggerWord(lower))

extract_trigger(trigger_text) == TriggerOfLower(Lower(trigger_text))

\* Fault injection for parse_cost: the closing brace is removed, not turned into a
\* space.
parse_cost_unspaced(cost_str) ==
    CollapseSpaces(Strip(Replace(Replace(Strip(cost_str), "{", ""), "}", "")))

parse_cost(cost_str) ==
    CollapseSpaces(Strip(Replace(Replace(Strip(cost_str), "{", ""), "}", " ")))

\* ------------------------------------------------------------------------
\* The regular expressions of the handlers
\* ------------------------------------------------------------------------

\* What a handler sees when its regular expression does not match.
NoMatch == [ok |-> FALSE, g1 |-> "", g2 |-> ""]

\* `(?:\.|$)` can match right after index e: a period follows, or the text ends
\* there (or only its final line break follows).
ClauseEndsAt(text, e) ==
    \/ e = Len(text)
    \/ Ch(text, e + 1) = "."
    \/ (e = Len(text) - 1 /\ Ch(text, Len(text)) = "\n")

\* `\s+(.+?)` can match after index c when v whitespace characters follow c: the
\* group needs one character, which the last of several spaces can be.
RoomAfter(text, c, v) == v >= 1 /\ (c + v < Len(text) \/ v >= 2)

\* `,\s+(.+?)(?:\.|$)` matches with its comma at index c (re.DOTALL).
GoodComma(text, c) == Ch(text, c) = "," /\ RoomAfter(text, c, LeadingSpaces(text, c + 1))

\* Where the group of `\s+(.+?)` or `\s*(.+?)` starts when v whitespace characters
\* follow index c: after them, or at the last of them when the text ends there.
GroupStart(text, c, v) == IF c + v < Len(text) THEN c + v + 1 ELSE Len(text)

\* The group of `(.+?)(?:\.|$)` that starts at index st (re.DOTALL).
GroupFrom(text, st) ==
    SubSeq(text, st, Min({k \in st..Len(text) : ClauseEndsAt(text, k)}))

\* The group of `\s+(.+?)(?:\.|$)` or `\s*(.+?)(?:\.|$)` matched after index c.
EffectGroup(text, c) == GroupFrom(text, GroupStart(text, c, LeadingSpaces(text, c + 1)))

\* The first index >= from where `,\s+(.+?)(?:\.|$)` matches, 0 when there is none.
FirstGoodComma(text, from) == MinOrZero({c \in from..Len(text) : GoodComma(text, c)})

\* The two groups of `(.+?),\s+(.+?)(?:\.|$)` when the first starts at index st and
\* the comma is at index c; no match when c = 0.
TriggerGroups(text, st, c) ==
    IF c = 0 THEN NoMatch
    ELSE [ok |-> TRUE, g1 |-> SubSeq(text, st, c - 1), g2 |-> EffectGroup(text, c)]

\* The match of kw + r'\s+(.+?),\s+(.+?)(?:\.|$)' when `\s+` takes k characters
\* after the a characters of kw; no match when k = 0.
TriggerMatchWith(text, a, k) ==
    IF k = 0 THEN NoMatch
    ELSE TriggerGroups(text, a + k + 1, FirstGoodComma(text, a + k + 2))

\* The number of characters `\s+` ends up with, w whitespace characters following
\* kw: it is greedy and gives characters back only while no comma fits.
TriggerSpaces(text, a, w) ==
    MaxOrZero({k \in 1..w : FirstGoodComma(text, a + k + 2) # 0})

\* re.match(kw + r'\s+(.+?),\s+(.+?)(?:\.|$)', text, re.DOTALL) for kw 'Whenever'
\* and 'When'.
TriggerMatch(text, kw) ==
    IF StartsWith(text, kw)
    THEN TriggerMatchWith(text, Len(kw),
                          TriggerSpaces(text, Len(kw), LeadingSpaces(text, Len(kw) + 1)))
    ELSE NoMatch

\* re.match(r'At the beginning of (.+?),\s+(.+?)(?:\.|$)', text, re.DOTALL)
BeginningMatch(text) ==
    IF StartsWith(text, "At the beginning of ")
    THEN TriggerGroups(text, 21, FirstGoodComma(text, 22))
    ELSE NoMatch

\* `\}:` is at index q with a non-empty `.+?` between it and the opening brace.
CostEndsAt(text, q) == q >= 3 /\ Ch(text, q) = "}" /\ Ch(text, q + 1) = ":"

\* re.match(r'^\{.+?\}:', text): the dot matches no line break here.
LooksActivated(text) ==
    /\ Ch(text, 1) = "{"
    /\ \E q \in 3..(Len(text) - 1) :
          CostEndsAt(text, q) /\ \A k \in 2..(q - 1) : Ch(text, k) # "\n"

\* The groups of r'^(\{.+?\}):\s*(.+?)(?:\.|$)' when the cost ends at index q; no
\* match when q = 0.
ActivatedGroups(text, q) ==
    IF q = 0 THEN NoMatch
    ELSE [ok |-> TRUE, g1 |-> SubSeq(text, 1, q), g2 |-> EffectGroup(text, q + 1)]

\* re.match(r'^(\{.+?\}):\s*(.+?)(?:\.|$)', text, re.DOTALL)
ActivatedMatch(text) ==
    IF Ch(text, 1) = "{"
    THEN ActivatedGroups(text, MinOrZero({q \in 3..(Len(text) - 2) : CostEndsAt(text, q)}))
    ELSE NoMatch

\* Index where the group of `(.+?)(?:\.|$)` ends when it starts at st, 0 when it
\* cannot: without re.DOTALL the dot matches no line break.
UpkeepGroupEnd(text, st) ==
    MinOrZero({e \in st..Len(text) :
                  ClauseEndsAt(text, e) /\ \A k \in st..e : Ch(text, k) # "\n"})

\* Where the group of `Upkeep[-:]\s*(.+?)(?:\.|$)` starts for the occurrence of
\* 'Upkeep' at index u, 0 when nothing matches there: `\s*` is greedy and gives
\* characters back only while the group cannot be matched.
UpkeepGroupStart(text, u) ==
    MaxOrZero({st \in (u + 7)..(u + 7 + LeadingSpaces(text, u + 7)) :
                  UpkeepGroupEnd(text, st) # 0})

\* `Upkeep[-:]\s*(.+?)(?:\.|$)` matches at index u, the dash being the em dash.
UpkeepAt(text, u) ==
    /\ (MatchAt(text, "Upkeep" \o EmDash, u) \/ MatchAt(text, "Upkeep:", u))
    /\ UpkeepGroupStart(text, u) # 0

\* The group of the match whose group starts at index st.
UpkeepGroup(text, st) ==
    [ok |-> TRUE, g1 |-> SubSeq(text, st, UpkeepGroupEnd(text, st)), g2 |-> ""]

\* The match at index u; no match when u = 0.
UpkeepMatchAt(text, u) ==
    IF u = 0 THEN NoMatch ELSE UpkeepGroup(text, UpkeepGroupStart(text, u))

\* re.search(r'Upkeep[-:]\s*(.+?)(?:\.|$)', text)
UpkeepMatch(text) ==
    UpkeepMatchAt(text, MinOrZero({u \in 1..Len(text) : UpkeepAt(text, u)}))

\* `Choose (?:one|two|up to \w+)` matches at index i.
ChooseAt(text, i) ==
    \/ MatchAt(text, "Choose one", i)
    \/ MatchAt(text, "Choose two", i)
    \/ (MatchAt(text, "Choose up to ", i) /\ IsWordChar(Ch(text, i + 13)))

\* re.match(r'^(.*?)(Choose (?:one|two|up to \w+).*?)$', text, re.DOTALL): the index
\* where the second group starts, 0 when there is no match.
ChooseStart(text) == MinOrZero({i \in 1..Len(text) : ChooseAt(text, i)})

IsBullet(c) == c = Bullet \/ c = "-"

\* The lookahead `(?=\n[bullet-]|\n\n|$)` holds at index q.
ChoiceStopsAt(s, q) ==
    \/ q = Len(s) + 1
    \/ (q = Len(s) /\ Ch(s, q) = "\n")
    \/ (q < Len(s) /\ Ch(s, q) = "\n" /\ (IsBullet(Ch(s, q + 1)) \/ Ch(s, q + 1) = "\n"))

\* Where the group of `[bullet-]\s*(.+?)` starts when w whitespace characters
\* follow the bullet at index b, 0 when the group has no character to take.
ChoiceGroupStart(s, b, w) ==
    IF b + w < Len(s) THEN b + w + 1
    ELSE IF w >= 1 THEN Len(s)
    ELSE 0

\* A match of `[bullet-]\s*(.+?)(?=\n[bullet-]|\n\n|$)` with its bullet at index b: the
\* start of the group, 0 when there is no match at b.
ChoiceStart(s, b) ==
    IF IsBullet(Ch(s, b)) THEN ChoiceGroupStart(s, b, LeadingSpaces(s, b + 1)) ELSE 0

\* Where the lazy group that starts at index st ends.
ChoiceEnd(s, st) == Min({k \in st..Len(s) : ChoiceStopsAt(s, k + 1)})

RECURSIVE FindAllChoices(_, _)
\* The match whose group is s[st..e], and the matches after it.
ChoiceAndRest(s, st, e) == <<SubSeq(s, st, e)>> \o FindAllChoices(s, e + 1)

\* The matches from the bullet at index b on; none when b = 0.
ChoicesFromBullet(s, b) ==
    IF b = 0 THEN <<>> ELSE ChoiceAndRest(s, ChoiceStart(s, b), ChoiceEnd(s, ChoiceStart(s, b)))

\* re.findall of that pattern from index pos on.
FindAllChoices(s, pos) ==
    ChoicesFromBullet(s, MinOrZero({b \in pos..Len(s) : ChoiceStart(s, b) # 0}))

\* The item the list comprehension of the fallback keeps for one stripped line.
ChoiceLine(c) == IF c # "" /\ ~StartsWith(c, "Choose") THEN <<c>> ELSE <<>>

\* [c.strip() for c in parts if c.strip() and not c.strip().startswith('Choose')]
RECURSIVE ChoiceLines(_)
ChoiceLines(parts) ==
    IF parts = <<>> THEN <<>>
    ELSE ChoiceLine(Strip(parts[1])) \o ChoiceLines(Tail(parts))

\* The item the final list comprehension keeps for one stripped choice.
NonEmpty(c) == IF c # "" THEN <<c>> ELSE <<>>

\* [c.strip() for c in choices if c.strip()]
RECURSIVE StripNonEmpty(_)
StripNonEmpty(parts) ==
    IF parts = <<>> THEN <<>>
    ELSE NonEmpty(Strip(parts[1])) \o StripNonEmpty(Tail(parts))

\* The list `choices` before the final comprehension, given what findall found.
ChoicesOrLines(choices_text, found) ==
    IF found = <<>> THEN ChoiceLines(SplitOn(choices_text, "\n")) ELSE found

extract_modal_choices(choices_text) ==
    StripNonEmpty(ChoicesOrLines(choices_text, FindAllChoices(choices_text, 1)))

\* What parse_pump_static sees when its regular expression does not match.
NoPump == [ok |-> FALSE, power |-> "", tough |-> ""]

\* `[\+\-]\d+` at index i: the number of digits matched after the sign, 0 when it
\* does not match.
SignedNumber(text, i) == IF Ch(text, i) \in {"+", "-"} THEN DigitRun(text, i + 1) ELSE 0

\* `([\+\-]\d+)/([\+\-]\d+)` with the first sign at index s1, followed by d1 digits.
PumpNumbers(text, s1, d1) ==
    IF d1 >= 1 /\ Ch(text, s1 + d1 + 1) = "/" /\ SignedNumber(text, s1 + d1 + 2) >= 1
    THEN [ok |-> TRUE,
          power |-> SubSeq(text, s1, s1 + d1),
          tough |-> SubSeq(text, s1 + d1 + 2, s1 + d1 + 2 + SignedNumber(text, s1 + d1 + 2))]
    ELSE NoPump

\* `\s+([\+\-]\d+)/([\+\-]\d+)` from index n, where w whitespace characters start.
PumpAfterSpaces(text, n, w) ==
    IF w >= 1 THEN PumpNumbers(text, n + w, SignedNumber(text, n + w)) ELSE NoPump

\* `gets?\s+([\+\-]\d+)/([\+\-]\d+)` once 'get' or 'gets' ended before index n.
PumpAfterGet(text, n) == PumpAfterSpaces(text, n, LeadingSpaces(text, n))

\* The match of the pattern that starts at index i.
PumpAt(text, i) ==
    IF MatchAt(text, "get", i)
    THEN PumpAfterGet(text, IF Ch(text, i + 3) = "s" THEN i + 4 ELSE i + 3)
    ELSE NoPump

\* The match at index i; no match when i = 0.
PumpMatchAt(text, i) == IF i = 0 THEN NoPump ELSE PumpAt(text, i)

\* re.search(r'gets?\s+([\+\-]\d+)/([\+\-]\d+)', text): the two groups of the leftmost
\* match.
PumpMatch(text) == PumpMatchAt(text, MinOrZero({i \in 1..Len(text) : PumpAt(text, i).ok}))

\* ------------------------------------------------------------------------
\* AbilityParser: the handlers, as functions of the parser's fields
\*
\* A parser value p holds the instance fields ability_lines, svar_lines and
\* svar_counter, and two histories: `appended`, every line in the order the handlers
\* appended it to either list (the order of the append calls within one handler),
\* and `issued`, the name each call of _get_next_svar_name returned, in call order.
\* ------------------------------------------------------------------------

\* AbilityParser.__init__
NewParser == [ability_lines |-> <<>>, svar_lines |-> <<>>, svar_counter |-> 0,
              appended |-> <<>>, issued |-> <<>>]

\* self.svar_lines.append(line)
AppendSvar(p, line) ==
    [p EXCEPT !.svar_lines = Append(@, line), !.appended = Append(@, line)]

\* self.ability_lines.append(line)
AppendAbility(p, line) ==
    [p EXCEPT !.ability_lines = Append(@, line), !.appended = Append(@, line)]

\* get_next_svar_name: the name returned when called on p.
SvarName(p, base) == base \o ToString(p.svar_counter + 1)

\* Fault injection for BumpCounter: the counter is raised by two for one name.
BumpCounterSkipping(p, base) ==
    [p EXCEPT !.svar_counter = @ + 2, !.issued = Append(@, SvarName(p, base))]

\* get_next_svar_name: the parser after the call with base_name = base.  The call
\* is recorded in `issued` with the name it returned.
BumpCounter(p, base) ==
    [p EXCEPT !.svar_counter = @ + 1, !.issued = Append(@, SvarName(p, base))]

\* The end of parse_spell_effect, given the effect.
SpellLine(p, text, effect) ==
    IF effect # None
    THEN AppendAbility(p, "A:SP$ " \o effect \o " | SpellDescription$ " \o Prefix(text, 100))
    ELSE p

parse_spell_effect(p, text) == SpellLine(p, text, parse_effect_to_ability(text))

\* Fault injection for EmitTrigger: the trigger line is appended before the line
\* that defines the variable it executes.
EmitTriggerSwapped(p, svar_line, trigger_line) ==
    AppendSvar(AppendAbility(p, trigger_line), svar_line)

\* The two appends of a resolved trigger, in the handlers' order.
EmitTrigger(p, svar_line, trigger_line) == AppendAbility(AppendSvar(p, svar_line), trigger_line)

\* The end shared by the triggered handlers: a name is taken from the counter of p
\* with base_name = base, and the lines are appended only when the effect resolved.
ResolveTrigger(p, base, effect, trigger, description) ==
    IF effect = None THEN BumpCounter(p, base)
    ELSE EmitTrigger(BumpCounter(p, base),
                     "SVar:" \o SvarName(p, base) \o ":" \o effect,
                     "T:" \o trigger \o " | Execute$ " \o SvarName(p, base)
                         \o " | TriggerDescription$ " \o description)

\* parse_whenever_ability and parse_when_ability from the trigger line on.
TriggeredWith(p, text, trigger_line, effect_text) ==
    IF trigger_line = None THEN p
    ELSE ResolveTrigger(p, "Effect", parse_effect_to_ability(effect_text),
                        trigger_line, Prefix(text, 80))

\* The body shared by parse_whenever_ability and parse_when_ability, given the
\* match m of the regular expression.
TriggeredBody(p, text, kw, m) ==
    IF m.ok
    THEN TriggeredWith(p, text, extract_trigger(kw \o " " \o Strip(m.g1)), Strip(m.g2))
    ELSE p

parse_whenever_ability(p, text) == TriggeredBody(p, text, "Whenever", TriggerMatch(text, "Whenever"))

parse_when_ability(p, text) == TriggeredBody(p, text, "When", TriggerMatch(text, "When"))

\* next((v for k, v in phase_map.items() if k in timing), None)
PhaseOf(timing) ==
    IF Contains(timing, "upkeep") THEN "Upkeep"
    ELSE IF Contains(timing, "your upkeep") THEN "Upkeep"
    ELSE IF Contains(timing, "combat") THEN "BeginCombat"
    ELSE IF Contains(timing, "your end step") THEN "EndOfTurn"
    ELSE IF Contains(timing, "end step") THEN "EndOfTurn"
    ELSE IF Contains(timing, "each upkeep") THEN "Upkeep"
    ELSE IF Contains(timing, "your next upkeep") THEN "Upkeep"
    ELSE None

\* parse_beginning_ability from the phase on.
BeginningWith(p, text, phase, effect_text) ==
    IF phase = None THEN p
    ELSE ResolveTrigger(p, "Effect", parse_effect_to_ability(effect_text),
                        "Mode$ Phase | Phase$ " \o phase, Prefix(text, 80))

\* parse_beginning_ability, given the match m of the regular expression.
BeginningBody(p, text, m) ==
    IF m.ok THEN BeginningWith(p, text, PhaseOf(Lower(Strip(m.g1))), Strip(m.g2)) ELSE p

parse_beginning_ability(p, text) == BeginningBody(p, text, BeginningMatch(text))

\* parse_upkeep_ability from cost_text on.
UpkeepWith(p, cost_text) ==
    ResolveTrigger(p, "UpkeepEffect", parse_effect_to_ability(cost_text),
                   "Mode$ Phase | Phase$ Upkeep | TriggerZones$ Battlefield",
                   "Upkeep" \o EmDash \o " " \o cost_text)

\* parse_upkeep_ability, given the match m of the regular expression.
UpkeepBody(p, m) == IF m.ok THEN UpkeepWith(p, Strip(m.g1)) ELSE p

parse_upkeep_ability(p, text) == UpkeepBody(p, UpkeepMatch(text))

\* The end of parse_activated_ability, given the cost and the effect.
ActivatedLine(p, text, cost, effect) ==
    IF cost # None /\ effect # None
    THEN AppendAbility(p, "A:AB$ " \o effect \o " | Cost$ " \o cost
                           \o " | SpellDescription$ " \o Prefix(text, 100))
    ELSE p

\* parse_activated_ability, given the match m of the regular expression.
ActivatedBody(p, text, m) ==
    IF m.ok
    THEN ActivatedLine(p, text, parse_cost(m.g1), parse_effect_to_ability(Strip(m.g2)))
    ELSE p

parse_activated_ability(p, text) == ActivatedBody(p, text, ActivatedMatch(text))

\* The test of parse_pump_static for "creatures you control" and its variants.
PumpAffected(text) ==
    IF Contains(text, "creatures you control") THEN "Creature.YouCtrl"
    ELSE IF Contains(text, "creature") /\ Contains(text, "you control") THEN "Creature.YouCtrl"
    ELSE IF Contains(text, "creature you control") THEN "Creature.YouCtrl"
    ELSE "Card"

DurationOf(text) == IF Contains(text, "until end of turn") THEN "EndOfTurn" ELSE "Permanent"

\* parse_pump_static, given the match m of the regular expression.
PumpLine(p, text, m) ==
    IF m.ok
    THEN AppendAbility(p, "S:Mode$ Continuous | Affected$ " \o PumpAffected(text)
                           \o " | AddPower$ " \o m.power \o " | AddToughness$ " \o m.tough
                           \o " | Duration$ " \o DurationOf(text)
                           \o " | Description$ " \o text)
    ELSE p

parse_pump_static(p, text) == PumpLine(p, text, PumpMatch(text))

Keywords == <<"vigilance", "flying", "trample", "haste", "first strike", "double strike",
              "indestructible", "hexproof", "shroud", "reach", "lifelink", "menace">>

RECURSIVE FoundKeywords(_, _)
\* [kw for kw in keywords if kw in text.lower()], from keyword k on.
FoundKeywords(lower, k) ==
    IF k > Len(Keywords) THEN <<>>
    ELSE (IF Contains(lower, Keywords[k]) THEN <<Keywords[k]>> ELSE <<>>)
         \o FoundKeywords(lower, k + 1)

\* The test of parse_keyword_static for "creatures you control".
KeywordAffected(text) ==
    IF Contains(text, "creatures you control") THEN "Creature.YouCtrl" ELSE "Card"

\* parse_keyword_static, given the keywords found.
KeywordLine(p, text, found_keywords) ==
    IF found_keywords # <<>>
    THEN AppendAbility(p, "S:Mode$ Continuous | Affected$ " \o KeywordAffected(text)
                           \o " | AddKeyword$ " \o Join(found_keywords, " & ")
                           \o " | Duration$ " \o DurationOf(text)
                           \o " | Description$ " \o text)
    ELSE p

parse_keyword_static(p, text) == KeywordLine(p, text, FoundKeywords(Lower(text), 1))

parse_restriction_static(p, text) ==
    AppendAbility(p, "S:Mode$ Continuous | Description$ " \o text)

parse_static_ability(p, text) ==
    IF Contains(text, "gets ") \/ Contains(text, "get ") THEN parse_pump_static(p, text)
    ELSE IF Contains(text, "can't") \/ Contains(text, "cannot")
         THEN parse_restriction_static(p, text)
    ELSE IF Contains(text, "has ") \/ Contains(text, "have ") THEN parse_keyword_static(p, text)
    ELSE AppendAbility(p, "S:Mode$ Continuous | Description$ " \o text)

\* parse_modal_choice, given the base of the name it takes and the ability.
ChoiceSvar(p, base, ability) ==
    IF ability # None
    THEN AppendSvar(BumpCounter(p, base), "SVar:" \o SvarName(p, base) \o ":" \o ability)
    ELSE BumpCounter(p, base)

\* parse_modal_choice: the parser after the call.
parse_modal_choice(p, choice_text, index) ==
    ChoiceSvar(p, "Choice" \o ToString(index), parse_effect_to_ability(choice_text))

\* choice_svars with one name before those of the choices that follow.
WithName(name, rest) == [p |-> rest.p, names |-> <<name>> \o rest.names]

RECURSIVE ModalChoices(_, _, _)
\* The loop of parse_modal_ability over choices[i..]: the parser after it and
\* the list choice_svars it builds.
ModalChoices(p, choices, i) ==
    IF i > Len(choices) THEN [p |-> p, names |-> <<>>]
    ELSE WithName(SvarName(p, "Choice" \o ToString(i)),
                  ModalChoices(parse_modal_choice(p, choices[i], i), choices, i + 1))

\* The triggered charm of parse_modal_ability, given the trigger line.
CharmTrigger(p, text, trigger_line, charm_num, svar_name) ==
    IF trigger_line # None
    THEN EmitTrigger(BumpCounter(p, "CharmEffect"),
                     "SVar:" \o SvarName(p, "CharmEffect") \o ":AB$ Charm | CharmNum$ "
                         \o charm_num \o " | Choices$ " \o svar_name,
                     "T:" \o trigger_line \o " | Execute$ " \o SvarName(p, "CharmEffect")
                         \o " | TriggerDescription$ " \o Prefix(text, 80))
    ELSE p

\* parse_modal_ability after the line of the choice list is appended.
CharmLines(p, text, prefix, charm_num, svar_name) ==
    IF prefix # "" /\ (Contains(prefix, "Whenever") \/ Contains(prefix, "When")
                        \/ Contains(prefix, "At the beginning"))
    THEN CharmTrigger(p, text, extract_trigger(prefix), charm_num, svar_name)
    ELSE AppendAbility(p, "A:SP$ Charm | CharmNum$ " \o charm_num \o " | Choices$ "
                           \o svar_name \o " | SpellDescription$ " \o Prefix(text, 100))

\* parse_modal_ability after its loop, which left the parser loop.p and the names
\* loop.names.
CharmAfterLoop(text, prefix, charm_num, svar_name, loop) ==
    CharmLines(AppendSvar(loop.p, "SVar:" \o svar_name \o ":" \o Join(loop.names, ",")),
               text, prefix, charm_num, svar_name)

\* parse_modal_ability, given the prefix and the choices.
ModalBody(p, text, prefix, choices) ==
    IF choices = <<>> THEN parse_spell_effect(p, text)
    ELSE CharmAfterLoop(text, prefix, ToString(Len(choices)), SvarName(p, "Choices"),
                        ModalChoices(BumpCounter(p, "Choices"), choices, 1))

\* parse_modal_ability, given the index i where 'Choose ...' starts (0: no match).
ModalParts(p, text, i) ==
    ModalBody(p, text,
              IF i = 0 THEN "" ELSE Strip(Slice(text, 1, i - 1)),
              extract_modal_choices(IF i = 0 THEN text ELSE Strip(From(text, i))))

parse_modal_ability(p, text) == ModalParts(p, text, ChooseStart(text))

StaticKeywords == <<"gets ", "have ", "has ", "can't", "doesn't", "is ", "are ">>

\* any(kw in text for kw in [...])
LooksStatic(text) == \E k \in 1..Len(StaticKeywords) : Contains(text, StaticKeywords[k])

\* Fault injection for Category: the static keyword set is looked at before the
\* '{cost}:' prefix.
CategoryStaticFirst(text) ==
    IF Contains(text, "Choose") /\ (Contains(text, EmDash) \/ Contains(text, "-")) THEN "Modal"
    ELSE IF StartsWith(text, "Whenever ") THEN "Whenever"
    ELSE IF StartsWith(text, "When ") THEN "When"
    ELSE IF StartsWith(text, "At the beginning of ") THEN "Beginning"
    ELSE IF Contains(text, "Upkeep" \o EmDash) \/ Contains(text, "Upkeep:") THEN "Upkeep"
    ELSE IF LooksStatic(text) THEN "Static"
    ELSE IF LooksActivated(text) THEN "Activated"
    ELSE "Spell"

\* The category parse_ability_block dispatches a stripped, non-empty block to.
Category(text) ==
    IF Contains(text, "Choose") /\ (Contains(text, EmDash) \/ Contains(text, "-")) THEN "Modal"
    ELSE IF StartsWith(text, "Whenever ") THEN "Whenever"
    ELSE IF StartsWith(text, "When ") THEN "When"
    ELSE IF StartsWith(text, "At the beginning of ") THEN "Beginning"
    ELSE IF Contains(text, "Upkeep" \o EmDash) \/ Contains(text, "Upkeep:") THEN "Upkeep"
    ELSE IF LooksActivated(text) THEN "Activated"
    ELSE IF LooksStatic(text) THEN "Static"
    ELSE "Spell"

\* The handler parse_ability_block calls for a block of category cat.
Dispatch(p, text, cat) ==
    IF cat = "Modal" THEN parse_modal_ability(p, text)
    ELSE IF cat = "Whenever" THEN parse_whenever_ability(p, text)
    ELSE IF cat = "When" THEN parse_when_ability(p, text)
    ELSE IF cat = "Beginning" THEN parse_beginning_ability(p, text)
    ELSE IF cat = "Upkeep" THEN parse_upkeep_ability(p, text)
    ELSE IF cat = "Activated" THEN parse_activated_ability(p, text)
    ELSE IF cat = "Static" THEN parse_static_ability(p, text)
    ELSE parse_spell_effect(p, text)

\* parse_ability_block after text = text.strip().
DispatchStripped(p, text) == IF text = "" THEN p ELSE Dispatch(p, text, Category(text))

parse_ability_block(p, block) == DispatchStripped(p, Strip(block))

\* ------------------------------------------------------------------------
\* The segmenter
\* ------------------------------------------------------------------------

Marker == " | NEWLINE | "

\* The lookahead `(?=[A-Z{])` on a character.
StartsBlock(c) == IsUpper(c) \/ c = "{"

\* The matches of r'(?<=[.!?])\s+(?=[A-Z{])' in t: the index where each match starts.
SplitPoints(t) ==
    {i \in 2..Len(t) :
        /\ Ch(t, i - 1) \in {".", "!", "?"}
        /\ IsSpace(Ch(t, i))
        /\ StartsBlock(Ch(t, i + LeadingSpaces(t, i)))}

RECURSIVE SplitAt(_, _, _)
\* Fault injection for PieceAndRest: the whitespace of the match stays in the next
\* piece.
PieceAndRestKeepingSpaces(t, pos, points, i) ==
    <<Slice(t, pos, i - 1)>> \o SplitAt(t, i, points \ {i})

\* The piece that ends before the match at index i, and the pieces after the match.
PieceAndRest(t, pos, points, i) ==
    <<Slice(t, pos, i - 1)>> \o SplitAt(t, i + LeadingSpaces(t, i), points \ {i})

\* re.split on those matches: the pieces of t from index pos on.
SplitAt(t, pos, points) ==
    IF points = {} THEN <<From(t, pos)>> ELSE PieceAndRest(t, pos, points, Min(points))

RECURSIVE RestoreMarkers(_)
\* [b.replace(' | NEWLINE | ', '\n') for b in blocks]
RestoreMarkers(blocks) ==
    IF blocks = <<>> THEN <<>>
    ELSE <<Replace(blocks[1], Marker, "\n")>> \o RestoreMarkers(Tail(blocks))

\* re.split and the restoring comprehension, on the text with its markers.
SplitMarked(t) == RestoreMarkers(SplitAt(t, 1, SplitPoints(t)))

split_ability_blocks(text) == SplitMarked(Replace(text, "\n", Marker))

\* ------------------------------------------------------------------------
\* parse_abilities as a function of the parser it is called on
\* ------------------------------------------------------------------------

\* Fault injection for ResetParser: the two lists are reset, the counter is not.
ResetListsOnly(p) == [NewParser EXCEPT !.svar_counter = p.svar_counter]

\* The three assignments that open parse_abilities.
ResetParser(p) == NewParser

RECURSIVE ParseBlocks(_, _, _)
\* The for loop of parse_abilities over blocks[i..].
ParseBlocks(p, blocks, i) ==
    IF i > Len(blocks) THEN p
    ELSE ParseBlocks(parse_ability_block(p, blocks[i]), blocks, i + 1)

\* The parser a call parse_abilities(text) on p leaves behind.
ParserAfter(p, text) ==
    IF text = "" THEN p
    ELSE ParseBlocks(ResetParser(p), split_ability_blocks(Strip(text)), 1)

\* The pair a parser hands back at the return of parse_abilities.
Lists(p) == <<p.ability_lines, p.svar_lines>>

\* The pair parse_abilities(text) returns when called on p.
Returned(p, text) == IF text = "" THEN <<(<<>>), (<<>>)>> ELSE Lists(ParserAfter(p, text))

\* ------------------------------------------------------------------------
\* Bounds and inputs
\* ------------------------------------------------------------------------

\* Most sentences in one rules text.
MaxBlocks == 3

\* Largest life amount N written in a "you gain N life" / "loses N life" clause.
MaxAmount == 2

\* Longest mana-cost string given to parse_mana_cost on its own.
MaxManaLen == 4

\* Most card records in the document main reads.
MaxCards == 3

\* Characters of those mana-cost strings: a digit, two colours, the hybrid slash and a
\* character the tokenizer drops.
ManaAlphabet == {"2", "U", "B", "/", "X"}

RECURSIVE StringsUpTo(_, _)
\* Every string of at most n characters of the alphabet.
StringsUpTo(alphabet, n) ==
    IF n = 0 THEN {""}
    ELSE LET shorter == StringsUpTo(alphabet, n - 1)
         IN shorter \cup {s \o c : s \in shorter, c \in alphabet}

ManaStrings == StringsUpTo(ManaAlphabet, MaxManaLen)

Amounts == {ToString(n) : n \in 1..MaxAmount}

\* Trigger clauses that name an attack and hold no enters-the-battlefield or dies
\* phrase: one makes the text longer than the 80 characters of a description, one
\* holds the letters 'dies' inside a word, one holds a comma before "attacks".
AttackClauses == {"this creature attacks", "a creature you control attacks",
                  "one or more creatures you control with power 4 or greater attacks",
                  "zombodies attacks",
                  "Foo, Lord of Bar attacks"}

GainLifeTriggers == {"Whenever " \o c \o ", you gain " \o n \o " life." :
                        c \in AttackClauses, n \in Amounts}

UpkeepLoseLife == {"At the beginning of your upkeep, you lose " \o n \o " life." : n \in Amounts}

\* Sentences a rules text may open with.
FirstSentences ==
    GainLifeTriggers \cup UpkeepLoseLife \cup
    { "This creature likes pie.",
      "Dance.",
      "At the beginning of your upkeep, target opponent loses 2 life.",
      "At the beginning of the draw step, draw a card.",
      "At the beginning of the end of turn, draw a card.",
      "At the beginning of combat on your turn, draw a card.",
      "At the beginning of your end step, you gain 1 life.",
      "{T}: Draw a card.",
      "{2}{T}: Untap target creature.",
      "{T}: Dance.",
      "{1}, {T}: You gain 2 life.",
      "{T}: You gain 1 life for each creature that has flying.",
      "Draw a card.\nYou gain 1 life.",
      "Draw two cards.",
      "Whenever this creature attacks, dance.",
      "When Foo dies, create 2 Food tokens.",
      "Flying\nWhenever this creature attacks, you gain 1 life.",
      "Creatures you control get +1/+1.",
      "Cumulative Upkeep: sacrifice a creature.",
      "Choose one -\n- Draw a card.\n- You gain 2 life.",
      "Choose one " \o EmDash \o "\n" \o Bullet \o " Draw a card.\n" \o Bullet \o " Dance.",
      "Whenever this creature attacks, Choose one -\n- Draw a card.\n- Mill 2 cards.",
      "Whenever you dance, Choose one -\n- Draw a card." }

\* Sentences that may follow another one in a rules text.
NextSentences ==
    { "You gain 2 life.",
      "Whenever this creature attacks, draw a card.",
      "Choose one -\n- Scry 1." }

RECURSIVE TextsOf(_)
\* Rules texts of exactly n sentences, single spaces between them.
TextsOf(n) ==
    IF n = 1 THEN FirstSentences
    ELSE {t \o " " \o s : t \in TextsOf(n - 1), s \in NextSentences}

Texts == UNION {TextsOf(n) : n \in 1..MaxBlocks}

RECURSIVE Repeat(_, _)
\* s, n times.
Repeat(s, n) == IF n = 0 THEN "" ELSE s \o Repeat(s, n - 1)

\* A modal ability of eleven choices.
ElevenChoices == "Choose one -" \o Repeat("\n- Draw a card.", 11)

\* A modal ability of one choice.
OneChoice == "Choose one -\n- Draw a card."

\* A long card: nine modal abilities of eleven choices, then two of one choice.  The
\* last one takes its names when the counter stands at 110.
LongText == Repeat(ElevenChoices \o " ", 9) \o OneChoice \o " " \o OneChoice

\* U+00A0, a blank an XML document may hold between two sentences.
NoBreakSpace == " "

\* A card record: the fields convert_card reads from the card element (prop tells
\* whether the element has a <prop> child).
CardRecord(name, prop, manacost, type, pt, loyalty, text) ==
    [name |-> name, prop |-> prop, manacost |-> manacost, type |-> type, pt |-> pt,
     loyalty |-> loyalty, text |-> text]

Cards ==
    {CardRecord("Grizzly Bear", TRUE, "1G", "Creature - Bear", "2/2", "", t) : t \in Texts}
    \cup {CardRecord("Jace", TRUE, "", "Planeswalker - Jace", "", "3", t) :
             t \in {"", "  ", "+1: Draw a card."}}
    \cup {CardRecord("Opt", FALSE, "", "", "", "", t) :
             t \in {"Scry 1. Draw a card.", LongText,
                    "Whenever Bob &amp; Co attacks, you gain 1 life.",
                    "Draw a card." \o NoBreakSpace \o "You gain 1 life."}}
    \cup {CardRecord(" ", TRUE, "2U/B", "Instant", "", "", "Draw a card.")}

\* The card records main finds in its document: one without a name, one whose name
\* holds characters a filename does not keep, one plain.
MainCardSet ==
    {CardRecord(" ", TRUE, "2U/B", "Instant", "", "", "Draw a card."),
     CardRecord("Jace's Call & Co", FALSE, "", "", "", "", "Whenever this creature attacks, you gain 1 life."),
     CardRecord("Grizzly Bear", TRUE, "1G", "Creature - Bear", "2/2", "", "")}

RECURSIVE ListsUpTo(_, _)
\* Every list of at most n elements of S.
ListsUpTo(S, n) ==
    IF n = 0 THEN {<<>>}
    ELSE LET shorter == ListsUpTo(S, n - 1)
         IN shorter \cup {Append(q, x) : q \in shorter, x \in S}

CardLists == ListsUpTo(MainCardSet, MaxCards)

\* Texts given to parse_abilities on a parser that has already compiled a card.
ReuseTexts == {"", "Whenever this creature attacks, you gain 1 life.",
               "Choose one -\n- Draw a card.\n- You gain 2 life. {T}: Draw a card."}

\* ------------------------------------------------------------------------
\* State
\* ------------------------------------------------------------------------

VARIABLES
    pc,             \* where the run stands: "idle", "blocks", "assemble", "done",
                    \* "returned"; "mana", "mana_done" for parse_mana_cost alone
    card,           \* the card record being converted
    caller,         \* who called parse_abilities: "convert_card" or "direct"
    output,         \* convert_card's list `output`
    forge_text,     \* what convert_card returned (None for a card without a name)
    ability_lines,  \* AbilityParser.ability_lines
    svar_lines,     \* AbilityParser.svar_lines
    svar_counter,   \* AbilityParser.svar_counter
    appended,       \* the lines appended to either list since the last reset, in order
    issued,         \* the names _get_next_svar_name returned since the last reset, in order
    text,           \* parse_abilities' argument
    ability_blocks, \* parse_abilities' list of blocks
    block_i,        \* index of the next block of the for loop
    returned,       \* the pair parse_abilities returned
    mana_str,       \* parse_mana_cost: its argument
    mana_i,         \* parse_mana_cost: the index i, 1-based
    mana_result,    \* parse_mana_cost: the list `result`
    mana_iters,     \* parse_mana_cost: iterations of the while loop so far
    mana_out,       \* parse_mana_cost: the string returned, None while it runs
    main_cards,     \* main: the list `cards` found in the document
    main_i,         \* main: index of the next card of the for loop, 1-based
    total_cards,    \* main: total_cards
    skipped_cards,  \* main: skipped_cards
    files,          \* main: the files written so far, in order, as <<filename, content>>
    summary         \* main: the figures printed (found, converted, skipped), <<>> before

parser_vars == <<ability_lines, svar_lines, svar_counter, appended, issued>>

card_vars == <<pc, card, caller, output, forge_text, text, ability_blocks, block_i, returned>>

mana_vars == <<mana_str, mana_i, mana_result, mana_iters, mana_out>>

main_vars == <<main_cards, main_i, total_cards, skipped_cards, files, summary>>

vars == <<card_vars, parser_vars, mana_vars, main_vars>>

\* The parser instance as one value.
Parser == [ability_lines |-> ability_lines, svar_lines |-> svar_lines,
           svar_counter |-> svar_counter, appended |-> appended, issued |-> issued]

SetParser(p) ==
    /\ ability_lines' = p.ability_lines
    /\ svar_lines' = p.svar_lines
    /\ svar_counter' = p.svar_counter
    /\ appended' = p.appended
    /\ issued' = p.issued

NoCard == CardRecord("", FALSE, "", "", "", "", "")

\* No call of parse_mana_cost in progress.
ManaIdle ==
    /\ mana_str = ""
    /\ mana_i = 1
    /\ mana_result = <<>>
    /\ mana_iters = 0
    /\ mana_out = None

\* No card is being converted and the parser is as constructed.
NoConversion ==
    /\ card = NoCard
    /\ caller = "convert_card"
    /\ output = <<>>
    /\ forge_text = None
    /\ ability_lines = NewParser.ability_lines
    /\ svar_lines = NewParser.svar_lines
    /\ svar_counter = NewParser.svar_counter
    /\ appended = NewParser.appended
    /\ issued = NewParser.issued
    /\ text = ""
    /\ ability_blocks = <<>>
    /\ block_i = 1
    /\ returned = <<(<<>>), (<<>>)>>

\* main is not running.
MainIdle ==
    /\ main_cards = <<>>
    /\ main_i = 1
    /\ total_cards = 0
    /\ skipped_cards = 0
    /\ files = <<>>
    /\ summary = <<>>

Init ==
    /\ pc = "idle"
    /\ NoConversion
    /\ ManaIdle
    /\ MainIdle

\* ------------------------------------------------------------------------
\* convert_card and AbilityParser.parse_abilities, step by step
\* ------------------------------------------------------------------------

\* The header lines convert_card appends for a card with a name.
HeaderLines(c) ==
    LET mana_cost == Strip(c.manacost)
        card_type == Strip(c.type)
        pt == Strip(c.pt)
        loyalty == Strip(c.loyalty)
    IN <<"Name:" \o Strip(c.name)>>
       \o (IF ~c.prop THEN <<>>
           ELSE (IF mana_cost # "" THEN <<"ManaCost:" \o parse_mana_cost(mana_cost)>>
                 ELSE <<"ManaCost:no cost">>)
                \o (IF card_type # "" THEN <<"Types:" \o parse_card_type(card_type)>> ELSE <<>>)
                \o (IF pt # "" THEN <<"PT:" \o pt>> ELSE <<>>)
                \o (IF loyalty # "" THEN <<"Loyalty:" \o loyalty>> ELSE <<>>))

\* The Oracle line convert_card ends its output with.
OracleLine(t) ==
    IF t # "" THEN "Oracle:" \o escape_forge_text(DecodeEntities(t)) ELSE "Oracle:"

\* parse_abilities(t) is entered on parser p by `who`: an empty text returns two
\* empty lists at once, any other text resets the parser and is split into blocks.
EnterParseAbilities(p, t, who) ==
    /\ caller' = who
    /\ text' = t
    /\ block_i' = 1
    /\ IF t = ""
       THEN /\ SetParser(p)
            /\ ability_blocks' = <<>>
            /\ returned' = <<(<<>>), (<<>>)>>
            /\ pc' = IF who = "convert_card" THEN "assemble" ELSE "returned"
       ELSE /\ SetParser(ResetParser(p))
            /\ ability_blocks' = split_ability_blocks(Strip(t))
            /\ returned' = returned
            /\ pc' = "blocks"

\* convert_card on a card without a name: returns None.
ConvertNameless ==
    /\ pc = "idle"
    /\ \E c \in Cards :
          /\ Strip(c.name) = ""
          /\ card' = c
    /\ output' = <<>>
    /\ forge_text' = None
    /\ pc' = "done"
    /\ UNCHANGED <<caller, text, ability_blocks, block_i, returned, parser_vars, mana_vars,
                   main_vars>>

\* convert_card on a card with a name, up to its call of parse_abilities on a new
\* AbilityParser.
ConvertCard ==
    /\ pc = "idle"
    /\ \E c \in Cards :
          /\ Strip(c.name) # ""
          /\ card' = c
          /\ output' = HeaderLines(c)
          /\ EnterParseAbilities(NewParser, Strip(c.text), "convert_card")
    /\ forge_text' = None
    /\ UNCHANGED <<mana_vars, main_vars>>

\* parse_abilities called again on the parser that has compiled a card.
ParseAgain ==
    /\ pc = "done"
    /\ forge_text # None
    /\ svar_counter > 0
    /\ \E t \in ReuseTexts : EnterParseAbilities(Parser, t, "direct")
    /\ UNCHANGED <<card, output, forge_text, mana_vars, main_vars>>

\* One iteration of the for loop of parse_abilities.
ParseBlock ==
    /\ pc = "blocks"
    /\ block_i <= Len(ability_blocks)
    /\ SetParser(parse_ability_block(Parser, ability_blocks[block_i]))
    /\ block_i' = block_i + 1
    /\ UNCHANGED <<pc, card, caller, output, forge_text, text, ability_blocks, returned,
                   mana_vars, main_vars>>

\* parse_abilities returns its two lists.
ReturnAbilities ==
    /\ pc = "blocks"
    /\ block_i > Len(ability_blocks)
    /\ returned' = <<ability_lines, svar_lines>>
    /\ pc' = IF caller = "convert_card" THEN "assemble" ELSE "returned"
    /\ UNCHANGED <<card, caller, output, forge_text, text, ability_blocks, block_i,
                   parser_vars, mana_vars, main_vars>>

\* Fault injection for Assemble: the SVar lines are added before the ability lines.
AssembleSvarsFirst(header, lines, t) == header \o lines[2] \o lines[1] \o <<OracleLine(t)>>

\* The list convert_card joins: its header lines, then the two lists
\* parse_abilities returned, then the Oracle line.
Assemble(header, lines, t) == header \o lines[1] \o lines[2] \o <<OracleLine(t)>>

\* The end of convert_card: the lists are added to the output, then the Oracle line,
\* and the lines are joined.
AssembleOutput ==
    /\ pc = "assemble"
    /\ output' = Assemble(output, returned, text)
    /\ forge_text' = Join(output', "\n")
    /\ pc' = "done"
    /\ UNCHANGED <<card, caller, text, ability_blocks, block_i, returned, parser_vars,
                   mana_vars, main_vars>>

\* convert_card has returned (or the direct call has): its locals and its parser are
\* dropped, and the caller goes on to the next card.
NextCard ==
    /\ pc \in {"done", "returned"}
    /\ pc' = "idle"
    /\ card' = NoCard
    /\ caller' = "convert_card"
    /\ output' = <<>>
    /\ forge_text' = None
    /\ SetParser(NewParser)
    /\ text' = ""
    /\ ability_blocks' = <<>>
    /\ block_i' = 1
    /\ returned' = <<(<<>>), (<<>>)>>
    /\ UNCHANGED <<mana_vars, main_vars>>

Next ==
    \/ ConvertNameless
    \/ ConvertCard
    \/ ParseAgain
    \/ ParseBlock
    \/ ReturnAbilities
    \/ AssembleOutput
    \/ NextCard

Spec == Init /\ [][Next]_vars

\* ------------------------------------------------------------------------
\* parse_mana_cost, step by step
\* ------------------------------------------------------------------------

\* A call parse_mana_cost(mana_str) is entered, on any of the bounded strings.
ManaInit ==
    /\ pc = "mana"
    /\ NoConversion
    /\ mana_str \in ManaStrings
    /\ mana_i = 1
    /\ mana_result = <<>>
    /\ mana_iters = 0
    /\ mana_out = None
    /\ MainIdle

\* result.append(tok) when the iteration appends a token.
ManaAppend(result, tok) == IF tok = "" THEN result ELSE Append(result, tok)

\* The assignments of one iteration whose step is st.
ManaAdvance(st) ==
    /\ mana_result' = ManaAppend(mana_result, st.tok)
    /\ mana_i' = st.next

\* One iteration of the while loop.
ManaStep ==
    /\ pc = "mana"
    /\ mana_i <= Len(mana_str)
    /\ ManaAdvance(ManaStepAt(mana_str, mana_i))
    /\ mana_iters' = mana_iters + 1
    /\ UNCHANGED <<card_vars, parser_vars, mana_str, mana_out, main_vars>>

\* The loop has ended, or the string was empty: the tokens are joined and returned.
ManaReturn ==
    /\ pc = "mana"
    /\ mana_i > Len(mana_str)
    /\ mana_out' = IF mana_str = "" THEN "" ELSE Join(mana_result, " ")
    /\ pc' = "mana_done"
    /\ UNCHANGED <<card, caller, output, forge_text, text, ability_blocks, block_i, returned,
                   parser_vars, mana_str, mana_i, mana_result, mana_iters, main_vars>>

ManaNext ==
    \/ ManaStep
    \/ ManaReturn

ManaSpec == ManaInit /\ [][ManaNext]_vars

\* ------------------------------------------------------------------------
\* main, card by card
\* ------------------------------------------------------------------------

\* What re.sub(r'[^a-z0-9\s-]', '', name) leaves of one character.
FilenameChar(c) ==
    IF CharIn(c, LowerChars) \/ IsDigit(c) \/ IsSpace(c) \/ c = "-" THEN c ELSE ""

RECURSIVE KeepFilenameChars(_)
\* re.sub(r'[^a-z0-9\s-]', '', name)
KeepFilenameChars(s) ==
    IF s = "" THEN "" ELSE FilenameChar(Ch(s, 1)) \o KeepFilenameChars(From(s, 2))

RECURSIVE UnderscoreSpaces(_)
\* re.sub(r'\s+', '_', name)
UnderscoreSpaces(s) ==
    IF s = "" THEN ""
    ELSE IF IsSpace(Ch(s, 1))
         THEN "_" \o UnderscoreSpaces(From(s, 1 + LeadingSpaces(s, 1)))
         ELSE Ch(s, 1) \o UnderscoreSpaces(From(s, 2))

sanitize_filename(name) ==
    UnderscoreSpaces(KeepFilenameChars(Replace(Replace(Lower(name), "'", ""), "&", "and")))

\* The path main writes a card to, below its output directory.
FilePath(filename) ==
    (IF filename # "" THEN Lower(Ch(filename, 1)) ELSE "z") \o "/" \o filename \o ".txt"

\* convert_card as a function of the card: None for a card without a name, else the
\* lines joined.
convert_card(c) ==
    IF Strip(c.name) = "" THEN None
    ELSE Join(Assemble(HeaderLines(c), Returned(NewParser, Strip(c.text)), Strip(c.text)), "\n")

\* main is entered on a document with any of the bounded lists of card records.
MainInit ==
    /\ pc = "main"
    /\ NoConversion
    /\ ManaIdle
    /\ main_cards \in CardLists
    /\ main_i = 1
    /\ total_cards = 0
    /\ skipped_cards = 0
    /\ files = <<>>
    /\ summary = <<>>

\* An iteration of the for loop on a card without a name: `continue`.
MainSkipNameless ==
    /\ pc = "main"
    /\ main_i <= Len(main_cards)
    /\ Strip(main_cards[main_i].name) = ""
    /\ main_i' = main_i + 1
    /\ UNCHANGED <<card_vars, parser_vars, mana_vars, main_cards, total_cards, skipped_cards,
                   files, summary>>

\* The rest of an iteration, given the name and what convert_card returned: the card
\* is counted as skipped, or its file is written and it is counted as converted.
MainAfterConvert(name, text_out) ==
    IF text_out = None
    THEN /\ skipped_cards' = skipped_cards + 1
         /\ UNCHANGED <<total_cards, files>>
    ELSE /\ files' = Append(files, <<FilePath(sanitize_filename(name)), text_out>>)
         /\ total_cards' = total_cards + 1
         /\ UNCHANGED skipped_cards

\* An iteration of the for loop on a card with a name.
MainConvert ==
    /\ pc = "main"
    /\ main_i <= Len(main_cards)
    /\ Strip(main_cards[main_i].name) # ""
    /\ MainAfterConvert(Strip(main_cards[main_i].name), convert_card(main_cards[main_i]))
    /\ main_i' = main_i + 1
    /\ UNCHANGED <<card_vars, parser_vars, mana_vars, main_cards, summary>>

\* The loop has ended: the figures are printed.
MainSummary ==
    /\ pc = "main"
    /\ main_i > Len(main_cards)
    /\ summary' = <<Len(main_cards), total_cards, skipped_cards>>
    /\ pc' = "main_done"
    /\ UNCHANGED <<card, caller, output, forge_text, text, ability_blocks, block_i, returned,
                   parser_vars, mana_vars, main_cards, main_i, total_cards, skipped_cards,
                   files>>

MainNext ==
    \/ MainSkipNameless
    \/ MainConvert
    \/ MainSummary

MainSpec == MainInit /\ [][MainNext]_vars

\* ------------------------------------------------------------------------
\* AbilityParser._parse_effect_to_ability on a clause of its own
\* ------------------------------------------------------------------------

\* Effect clauses, one or more for each rule of the resolver and one for none.
SimpleClauses ==
    { "you gain 2 life",
      "target opponent loses 2 life",
      "target player loses 3 life",
      "draw a card",
      "draw two cards",
      "Draw three cards",
      "this creature deals 3 damage to target creature",
      "it deals 1 damage to you",
      "Create 2 Food tokens",
      "create a Treasure token",
      "create 3 tokens",
      "discard a card",
      "target opponent discards a card",
      "mill 2 cards",
      "counter target spell",
      "tap target creature",
      "untap target creature",
      "untap it",
      "scry 1",
      "surveil 2",
      "put a +1/+1 counter on target creature",
      "sacrifice a creature",
      "search your library for a card",
      "return target creature card from your graveyard to the battlefield",
      "dance",
      "draw a card and you gain 2 life" }

\* The clauses the resolver is called with: a simple clause, or two joined.
EffectClauses == SimpleClauses \cup {a \o ", then " \o b : a, b \in SimpleClauses}

\* parse_effect_to_ability is about to be called with the clause `text`.
EffectInit ==
    /\ pc = "effect"
    /\ text \in EffectClauses
    /\ returned = None
    /\ card = NoCard
    /\ caller = "convert_card"
    /\ output = <<>>
    /\ forge_text = None
    /\ ability_lines = NewParser.ability_lines
    /\ svar_lines = NewParser.svar_lines
    /\ svar_counter = NewParser.svar_counter
    /\ appended = NewParser.appended
    /\ issued = NewParser.issued
    /\ ability_blocks = <<>>
    /\ block_i = 1
    /\ ManaIdle
    /\ MainIdle

\* The call returns the effect, or None.
ResolveEffect ==
    /\ pc = "effect"
    /\ returned' = parse_effect_to_ability(text)
    /\ pc' = "effect_done"
    /\ UNCHANGED <<card, caller, output, forge_text, text, ability_blocks, block_i,
                   parser_vars, mana_vars, main_vars>>

EffectNext == ResolveEffect

EffectSpec == EffectInit /\ [][EffectNext]_vars

\* ------------------------------------------------------------------------
\* convert_cockatrice_to_forge_advanced_1.py: the first AbilityParser and its
\* convert_card
\* ------------------------------------------------------------------------

\* An ability of the first parser: the dict a handler returns, a key that is absent
\* being the empty string (no handler stores an empty value).
Adv1Ability(t, a, svar) == [T |-> t, A |-> a, SVar |-> svar]

\* The handler returned None.
Adv1None == Adv1Ability("", "", "")

\* _split_abilities, given text.split('. '): every part but the last gets its period
\* back, the last is kept when it is not empty.
Adv1Parts(parts) ==
    [k \in 1..(Len(parts) - 1) |-> parts[k] \o "."]
        \o (IF parts[Len(parts)] # "" THEN <<parts[Len(parts)]>> ELSE <<>>)

adv1_split_abilities(t) == Adv1Parts(SplitOn(t, ". "))

\* The line a trigger of the given mode becomes.
Adv1TriggerLine(mode, original_text) ==
    mode \o " | Execute$ TrigAbility | TriggerDescription$ " \o original_text

\* The chain of tests of _create_whenever_ability on trigger.lower(): the mode of
\* the T entry, None when the trigger is of no known kind.
Adv1WheneverMode(lower) ==
    IF Contains(lower, "attacks")
    THEN IF Contains(lower, "gnome")
         THEN "Mode$ Attacks | ValidCard$ Creature.YouCtrl+Gnome | TriggerZones$ Battlefield"
         ELSE "Mode$ Attacks | ValidCard$ Creature.YouCtrl | TriggerZones$ Battlefield"
    ELSE IF Contains(lower, "deals damage")
    THEN IF Contains(lower, "you control")
         THEN "Mode$ DamageDone | ValidSource$ Creature.YouCtrl | ValidTarget$ Opponent | TriggerZones$ Battlefield"
         ELSE "Mode$ DamageDone | ValidTarget$ Opponent | TriggerZones$ Battlefield"
    ELSE IF Contains(lower, "enters the battlefield")
    THEN "Mode$ ChangesZone | Destination$ Battlefield | ValidCard$ Card.Self | TriggerZones$ Battlefield"
    ELSE IF Contains(lower, "dies")
    THEN "Mode$ ChangesZone | Origin$ Battlefield | Destination$ Graveyard | ValidCard$ Card.Self | TriggerZones$ Graveyard"
    ELSE IF Contains(lower, "sacrificed")
    THEN "Mode$ ChangesZone | Origin$ Battlefield | Destination$ Graveyard | ValidCard$ Card.Self | TriggerZones$ Graveyard"
    ELSE IF Contains(lower, "cast")
    THEN "Mode$ SpellCast | ValidCard$ Card.YouOwn | TriggerZones$ Battlefield"
    ELSE None

\* The chain of tests of _create_whenever_ability on effect.lower(): the value of the
\* 'SVar:TrigAbility' entry, None when the entry is not set.
Adv1WheneverEffect(lower) ==
    IF Contains(lower, "loses") /\ Contains(lower, "life")
    THEN IF Contains(lower, "opponent")
         THEN "DB$ LoseLife | Defined$ EachOpponent | LifeAmount$ 1"
         ELSE None
    ELSE IF Contains(lower, "gains") /\ Contains(lower, "life")
    THEN "DB$ GainLife | Defined$ You | LifeAmount$ 1"
    ELSE IF Contains(lower, "draw") THEN "DB$ Draw | Defined$ You | NumCards$ 1"
    ELSE IF Contains(lower, "create") THEN "DB$ Token | TokenScript$ food"
    ELSE None

\* `return result if result.get('T') else None`, the T entry having the given mode.
Adv1Triggered(mode, svar, original_text) ==
    IF mode = None THEN Adv1None
    ELSE Adv1Ability(Adv1TriggerLine(mode, original_text), "", svar)

adv1_create_whenever_ability(trigger, effect, original_text) ==
    Adv1Triggered(Adv1WheneverMode(Lower(trigger)), Adv1WheneverEffect(Lower(effect)),
                  original_text)

adv1_create_when_ability(trigger, effect, original_text) ==
    adv1_create_whenever_ability(trigger, effect, original_text)

\* The two tests of _create_beginning_ability on timing.lower().
Adv1BeginningMode(lower) ==
    IF Contains(lower, "upkeep") THEN "Mode$ Phase | Phase$ Upkeep | TriggerZones$ Battlefield"
    ELSE IF Contains(lower, "combat")
    THEN "Mode$ Phase | Phase$ BeginCombat | TriggerZones$ Battlefield"
    ELSE None

\* The test of _create_beginning_ability on effect.lower().
Adv1BeginningEffect(lower) ==
    IF Contains(lower, "loses") /\ Contains(lower, "life")
    THEN "DB$ LoseLife | Defined$ You | LifeAmount$ 2"
    ELSE None

adv1_create_beginning_ability(timing, effect, original_text) ==
    Adv1Triggered(Adv1BeginningMode(Lower(timing)), Adv1BeginningEffect(Lower(effect)),
                  original_text)

\* re.match(r'^\d+$', cost_str)
Adv1AllDigits(s) == s # "" /\ \A i \in 1..Len(s) : IsDigit(Ch(s, i))

\* _parse_cost after cost_str = cost_str.strip().
Adv1CostOf(cost_str) ==
    IF cost_str = "T" THEN "T"
    ELSE IF Adv1AllDigits(cost_str) THEN cost_str
    ELSE Replace(Replace(Replace(cost_str, "{", ""), "}", ""), ",", " |")

adv1_parse_cost(cost_str) == Adv1CostOf(Strip(cost_str))

\* _parse_effect after effect_str = effect_str.lower().strip().
Adv1EffectOf(lower) ==
    IF Contains(lower, "gain") /\ Contains(lower, "life") THEN "GainLife | LifeAmount$ 3"
    ELSE IF Contains(lower, "draw") THEN "Draw | NumCards$ 1"
    ELSE IF Contains(lower, "damage") THEN "DealDamage | NumDmg$ 2"
    ELSE None

adv1_parse_effect(effect_str) == Adv1EffectOf(Strip(Lower(effect_str)))

\* _create_activated_ability, given the two parsed parts.
Adv1Activated(cost_forge, effect_forge, original_text) ==
    IF cost_forge # "" /\ effect_forge # None
    THEN Adv1Ability("", "AB$ " \o effect_forge \o " | Cost$ " \o cost_forge
                         \o " | SpellDescription$ " \o original_text, "")
    ELSE Adv1None

adv1_create_activated_ability(cost, effect, original_text) ==
    Adv1Activated(adv1_parse_cost(cost), adv1_parse_effect(effect), original_text)

\* `\}:\s+(.+?)` matches with the closing brace at index q.
Adv1CostEndsAt(ability_text, q) ==
    /\ CostEndsAt(ability_text, q)
    /\ RoomAfter(ability_text, q + 1, LeadingSpaces(ability_text, q + 2))

\* The groups of r'\{(.+?)\}:\s+(.+?)(?:\.|$)' when the cost ends at index q; no
\* match when q = 0.
Adv1ActivatedGroups(ability_text, q) ==
    IF q = 0 THEN NoMatch
    ELSE [ok |-> TRUE, g1 |-> SubSeq(ability_text, 2, q - 1),
          g2 |-> EffectGroup(ability_text, q + 1)]

\* re.match(r'\{(.+?)\}:\s+(.+?)(?:\.|$)', text), text holding no line break.
Adv1ActivatedMatch(ability_text) ==
    IF Ch(ability_text, 1) = "{"
    THEN Adv1ActivatedGroups(ability_text,
                             MinOrZero({q \in 3..(Len(ability_text) - 2) :
                                           Adv1CostEndsAt(ability_text, q)}))
    ELSE NoMatch

\* _parse_single_ability from its fourth pattern on.
Adv1TryActivated(ability_text, m) ==
    IF m.ok THEN adv1_create_activated_ability(m.g1, m.g2, ability_text) ELSE Adv1None

\* _parse_single_ability from its third pattern on.
Adv1TryBeginning(ability_text, m) ==
    IF m.ok THEN adv1_create_beginning_ability(m.g1, m.g2, ability_text)
    ELSE Adv1TryActivated(ability_text, Adv1ActivatedMatch(ability_text))

\* _parse_single_ability from its second pattern on.
Adv1TryWhen(ability_text, m) ==
    IF m.ok THEN adv1_create_when_ability(m.g1, m.g2, ability_text)
    ELSE Adv1TryBeginning(ability_text, BeginningMatch(ability_text))

\* _parse_single_ability from its first pattern on.
Adv1TryWhenever(ability_text, m) ==
    IF m.ok THEN adv1_create_whenever_ability(m.g1, m.g2, ability_text)
    ELSE Adv1TryWhen(ability_text, TriggerMatch(ability_text, "When"))

\* _parse_single_ability after text = text.strip(); the text holds no line break, so
\* the patterns match as they do with re.DOTALL.
adv1_parse_single_ability(ability_text) ==
    Adv1TryWhenever(Strip(ability_text), TriggerMatch(Strip(ability_text), "Whenever"))

\* The lines convert_card appends for one ability.
Adv1LinesOf(ability) ==
    (IF ability.T # "" THEN <<"T:" \o ability.T>> ELSE <<>>)
    \o (IF ability.A # "" THEN <<"A:" \o ability.A>> ELSE <<>>)
    \o (IF ability.SVar # "" THEN <<"SVar:TrigAbility:" \o ability.SVar>> ELSE <<>>)

RECURSIVE Adv1Lines(_, _)
\* The lines convert_card appends for abilities[i..].
Adv1Lines(abilities, i) ==
    IF i > Len(abilities) THEN <<>>
    ELSE Adv1LinesOf(abilities[i]) \o Adv1Lines(abilities, i + 1)

\* escape_forge_text of the first converter.
adv1_escape_forge_text(t) == IF t = "" THEN "" ELSE Replace(t, "\n", "\\n")

\* The Oracle line the first convert_card ends its output with.
Adv1OracleLine(t) ==
    IF t # "" THEN "Oracle:" \o adv1_escape_forge_text(DecodeEntities(t)) ELSE "Oracle:"

\* Sentences a rules text given to the first converter may open with.
Adv1FirstSentences ==
    { "Whenever this creature attacks, you gain 1 life.",
      "Whenever this creature attacks, its controller gains 1 life.",
      "Whenever a Gnome attacks, draw a card.",
      "Whenever you dance, draw a card.",
      "Whenever a creature you control deals damage to a player, dance.",
      "Whenever you cast a spell, create a Food token.",
      "When Foo enters the battlefield, target opponent loses 1 life.",
      "When Foo dies, target player loses 1 life.",
      "When Foo is sacrificed, draw a card.",
      "At the beginning of your upkeep, you lose 2 life.",
      "At the beginning of your upkeep, that player loses 2 life.",
      "At the beginning of combat, draw a card.",
      "At the beginning of the end step, that player loses 2 life.",
      "{T}: Draw a card.",
      "{2}{T}: You gain 3 life.",
      "{1}, {T}: It deals 2 damage to you.",
      "{T}: Dance.",
      "Flying\nWhenever this creature attacks, draw a card.",
      "Flying" }

\* Sentences that may follow another one.
Adv1NextSentences ==
    { "When Foo dies, draw a card.",
      "{3}: Draw a card.",
      "Dance." }

RECURSIVE Adv1TextsOf(_)
\* Rules texts of exactly n sentences, single spaces between them.
Adv1TextsOf(n) ==
    IF n = 1 THEN Adv1FirstSentences
    ELSE {t \o " " \o s : t \in Adv1TextsOf(n - 1), s \in Adv1NextSentences}

Adv1Cards ==
    {CardRecord("Grizzly Bear", TRUE, "1G", "Creature - Bear", "2/2", "", t) :
        t \in UNION {Adv1TextsOf(n) : n \in 1..MaxBlocks}}
    \cup {CardRecord("Opt", FALSE, "", "", "", "", t) : t \in {"", " Draw a card. "}}
    \cup {CardRecord(" ", TRUE, "2U/B", "Instant", "", "", "Draw a card.")}

\* The first convert_card is about to be called with a card.
Adv1Init ==
    /\ pc = "adv1"
    /\ card \in Adv1Cards
    /\ caller = "convert_card"
    /\ output = <<>>
    /\ forge_text = None
    /\ ability_lines = NewParser.ability_lines
    /\ svar_lines = NewParser.svar_lines
    /\ svar_counter = NewParser.svar_counter
    /\ appended = NewParser.appended
    /\ issued = NewParser.issued
    /\ text = ""
    /\ ability_blocks = <<>>
    /\ block_i = 1
    /\ returned = <<(<<>>), (<<>>)>>
    /\ ManaIdle
    /\ MainIdle

\* convert_card on a card without a name returns None.
Adv1ConvertNameless ==
    /\ pc = "adv1"
    /\ Strip(card.name) = ""
    /\ pc' = "adv1_done"
    /\ UNCHANGED <<card, caller, output, forge_text, text, ability_blocks, block_i, returned,
                   parser_vars, mana_vars, main_vars>>

\* The list the loop of parse_abilities runs over, for the text t convert_card passes:
\* none for an empty text, else the parts of the text with its line breaks turned into
\* spaces and stripped.
Adv1AbilityTexts(t) ==
    IF t = "" THEN <<>> ELSE adv1_split_abilities(Strip(Replace(t, "\n", " ")))

\* convert_card on a card with a name, up to the loop of parse_abilities: the header
\* lines, then the text with its line breaks turned into spaces, stripped and split.
\* An empty text returns at once.
Adv1ConvertCard ==
    /\ pc = "adv1"
    /\ Strip(card.name) # ""
    /\ output' = HeaderLines(card)
    /\ text' = Strip(card.text)
    /\ ability_blocks' = Adv1AbilityTexts(Strip(card.text))
    /\ block_i' = 1
    /\ returned' = <<(<<>>), (<<>>)>>
    /\ pc' = "adv1_abilities"
    /\ UNCHANGED <<card, caller, forge_text, parser_vars, mana_vars, main_vars>>

\* `abilities` after the iteration of the loop on ability_text, given what
\* _parse_single_ability returns for it.
Adv1Appended(abilities, parsed) ==
    IF parsed # Adv1None THEN Append(abilities, parsed) ELSE abilities

\* One iteration of the loop of parse_abilities; `returned` holds the list
\* `abilities` being built and the dict self.svars, which nothing fills.
Adv1ParseAbility ==
    /\ pc = "adv1_abilities"
    /\ block_i <= Len(ability_blocks)
    /\ returned' = <<IF Strip(ability_blocks[block_i]) = "" THEN returned[1]
                     ELSE Adv1Appended(returned[1],
                                       adv1_parse_single_ability(Strip(ability_blocks[block_i]))),
                     returned[2]>>
    /\ block_i' = block_i + 1
    /\ UNCHANGED <<pc, card, caller, output, forge_text, text, ability_blocks,
                   parser_vars, mana_vars, main_vars>>

\* parse_abilities returns; convert_card appends the lines of each ability, then the
\* Oracle line, and joins the lines.
Adv1Assemble ==
    /\ pc = "adv1_abilities"
    /\ block_i > Len(ability_blocks)
    /\ output' = output \o Adv1Lines(returned[1], 1) \o <<Adv1OracleLine(text)>>
    /\ forge_text' = Join(output', "\n")
    /\ pc' = "adv1_done"
    /\ UNCHANGED <<card, caller, text, ability_blocks, block_i, returned, parser_vars,
                   mana_vars, main_vars>>

Adv1Next ==
    \/ Adv1ConvertNameless
    \/ Adv1ConvertCard
    \/ Adv1ParseAbility
    \/ Adv1Assemble

Adv1Spec == Adv1Init /\ [][Adv1Next]_vars

\* ------------------------------------------------------------------------
\* Properties
\* ------------------------------------------------------------------------

\* A T:, A: or S: directive.
IsAbilityLine(line) ==
    StartsWith(line, "T:") \/ StartsWith(line, "A:") \/ StartsWith(line, "S:")

IsSvarLine(line) == StartsWith(line, "SVar:")

\* The word that follows the first occurrence of key in line.
WordAfter(line, key) ==
    LET st == Find(line, key, 1) + Len(key)
        sp == Find(line, " ", st)
    IN Slice(line, st, IF sp = 0 THEN Len(line) ELSE sp - 1)

\* The name an SVar line defines.
SvarNameOf(line) == Slice(line, 6, Find(line, ":", 6) - 1)

\* The positions of the lines of q that define the support variable `name`.
DefinedAt(q, name) == {j \in 1..Len(q) : StartsWith(q[j], "SVar:" \o name \o ":")}

\* The support-variable names the ability line refers to.
ReferencedNames(line) ==
    {WordAfter(line, key) : key \in {k \in {"Execute$ ", "Choices$ "} : Contains(line, k)}}

\* parse_abilities has returned: the parser's lists are those of the text compiled.
ParseDone == pc \in {"assemble", "done", "returned"}

\* convert_card has returned the text of a card.
CardDone == pc = "done" /\ forge_text # None

\* C1: every support-variable name that follows 'Execute$ ' or 'Choices$ ' in an
\* emitted T:/A:/S: line is defined by exactly one SVar line of the card, that line
\* was appended before the ability line that refers to it, and it is the only line of
\* the card's output that defines the name.
C1_ReferencedSvarsDefined ==
    /\ \A i \in 1..Len(appended) :
          IsAbilityLine(appended[i]) =>
             \A name \in ReferencedNames(appended[i]) :
                /\ Cardinality(DefinedAt(appended, name)) = 1
                /\ \A j \in DefinedAt(appended, name) : j < i
                /\ Cardinality(DefinedAt(svar_lines, name)) = 1
    /\ CardDone =>
          \A i \in 1..Len(output) :
             IsAbilityLine(output[i]) =>
                \A name \in ReferencedNames(output[i]) :
                   Cardinality(DefinedAt(output, name)) = 1

\* A card was converted whose ability lines refer to an effect variable and to a
\* list of choices.
C1_Witness ==
    /\ CardDone
    /\ \E i, j \in 1..Len(ability_lines) :
          /\ StartsWith(ability_lines[i], "T:")
          /\ Contains(ability_lines[i], "Execute$ Effect")
          /\ Contains(ability_lines[j], "Choices$ Choices")

\* C2, as stated: the names of the SVar lines emitted for one card are pairwise
\* distinct.  It fails once the counter reaches 112 in a card that opens with a modal
\* ability of eleven choices: 'Choice11' followed by 12 and 'Choice1' followed by 112
\* are the same name.
C2_SvarNamesDistinct ==
    \A i, j \in 1..Len(svar_lines) :
       i # j => SvarNameOf(svar_lines[i]) # SvarNameOf(svar_lines[j])

\* C3: when parse_abilities is called on a parser that has compiled a card before,
\* what it returns for a text, and the counter it leaves, are those of a new
\* AbilityParser given the same text; the lists returned are the parser's own.
C3_NoCrossCardLeakage ==
    (pc = "returned" /\ caller = "direct") =>
       /\ returned = Returned(NewParser, text)
       /\ text # "" =>
             /\ svar_counter = ParserAfter(NewParser, text).svar_counter
             /\ returned = <<ability_lines, svar_lines>>

\* A parser that had compiled a card with support variables has compiled another
\* text, which has support variables too.
C3_Witness ==
    /\ pc = "returned"
    /\ caller = "direct"
    /\ text # Strip(card.text)
    /\ returned[2] # <<>>
    /\ Contains(forge_text, "SVar:")

\* C4, as stated: the text "This creature likes pie." compiles to no ability line and
\* no SVar line, and its output ends with the Oracle line of the text.  It fails: the
\* block is taken for a static ability, 'is ' being found inside 'This '.
C4_NoPatternNoLines ==
    (CardDone /\ text = "This creature likes pie.") =>
       /\ ability_lines = <<>>
       /\ svar_lines = <<>>
       /\ output[Len(output)] = "Oracle:This creature likes pie."

\* The length of the whitespace run at index i of t when the segmenter splits there:
\* the run follows '.', '!' or '?', holds no line break and precedes a capital letter
\* or '{'; 0 when index i starts no such run.
SeparatorAt(t, i) ==
    LET w == LeadingSpaces(t, i)
    IN IF /\ i >= 2
          /\ Ch(t, i - 1) \in {".", "!", "?"}
          /\ w >= 1
          /\ \A k \in i..(i + w - 1) : Ch(t, k) # "\n"
          /\ (IsUpper(Ch(t, i + w)) \/ Ch(t, i + w) = "{")
       THEN w
       ELSE 0

RECURSIVE Tiles(_, _, _, _)
\* blocks[k..] are consecutive pieces of t from index pos to its end, with exactly one
\* such run missing between two neighbours.
Tiles(t, blocks, k, pos) ==
    LET next == pos + Len(blocks[k])
    IN /\ MatchAt(t, blocks[k], pos)
       /\ IF k = Len(blocks) THEN next = Len(t) + 1
          ELSE /\ SeparatorAt(t, next) > 0
               /\ Tiles(t, blocks, k + 1, next + SeparatorAt(t, next))

\* C5, amended: for a rules text without the character '|', the blocks of
\* _split_ability_blocks are consecutive pieces of the text in order; between two
\* neighbouring blocks exactly one whitespace run is left out, a run without a line
\* break that follows '.', '!' or '?' and precedes a capital letter or '{'; every such
\* run of the text separates two blocks; no other character is lost or added.
C5_BlocksTileText ==
    (pc = "blocks" /\ ~Contains(text, "|")) =>
       /\ ability_blocks # <<>>
       /\ Tiles(Strip(text), ability_blocks, 1, 1)
       /\ Len(ability_blocks)
             = 1 + Cardinality({i \in 1..Len(Strip(text)) : SeparatorAt(Strip(text), i) > 0})

\* A text with a line break was split into several blocks.
C5_Witness ==
    /\ pc = "blocks"
    /\ Len(ability_blocks) >= 2
    /\ Contains(text, "\n")
    /\ ~Contains(text, "|")

\* C5, as stated: the blocks concatenated in order are the rules text.
C5_ConcatenationIsText ==
    pc = "blocks" => Join(ability_blocks, "") = Strip(text)

\* ------------------------------------------------------------------------
\* C6: attack triggers that gain life
\* ------------------------------------------------------------------------

\* "Whenever <clause>, you gain N life."
GainLifeText(clause, n) == "Whenever " \o clause \o ", you gain " \o n \o " life."

\* The clause holds no comma and none of the phrases _extract_trigger looks for
\* before 'attacks', in any letter case.
PlainAttackClause(clause) ==
    /\ Contains(clause, "attacks")
    /\ ~Contains(clause, ",")
    /\ ~Contains(Lower(clause), "enters the battlefield")
    /\ ~Contains(Lower(clause), "dies")
    /\ ~Contains(Lower(clause), "put into a graveyard")

\* C6, amended: a rules text that is the single block "Whenever <clause>, you gain N
\* life.", whose clause contains 'attacks', holds no comma and, in any letter case,
\* none of 'enters the battlefield', 'dies', 'put into a graveyard', compiles to
\* exactly the line 'T:Mode$ Attacks | ValidCard$ Card.Self | TriggerZones$
\* Battlefield | Execute$ Effect1 | TriggerDescription$ <first 80 characters of the
\* text>' and exactly the line 'SVar:Effect1:GainLife | Defined$ You | LifeAmount$ N'.
C6_AttackTriggerGainsLife ==
    \A clause \in AttackClauses, n \in Amounts :
       (ParseDone /\ text = GainLifeText(clause, n) /\ PlainAttackClause(clause)) =>
          /\ ability_lines
                = <<"T:Mode$ Attacks | ValidCard$ Card.Self | TriggerZones$ Battlefield"
                    \o " | Execute$ Effect1 | TriggerDescription$ " \o Prefix(text, 80)>>
          /\ svar_lines = <<"SVar:Effect1:GainLife | Defined$ You | LifeAmount$ " \o n>>
          /\ svar_counter = 1

\* A card with a comma-free attack clause and a text of more than 80 characters was
\* compiled for N = 2.
C6_Witness ==
    /\ ParseDone
    /\ text = GainLifeText("one or more creatures you control with power 4 or greater attacks",
                           "2")
    /\ Len(ability_lines) = 1
    /\ Contains(ability_lines[1], "Mode$ Attacks")
    /\ svar_lines = <<"SVar:Effect1:GainLife | Defined$ You | LifeAmount$ 2">>

\* C6, as stated: every text "Whenever <clause containing 'attacks' and no
\* enters-the-battlefield or dies phrase>, you gain N life." compiles to exactly one
\* T: line with 'Mode$ Attacks' and 'Execute$ Effect1' and exactly the SVar line
\* 'SVar:Effect1:GainLife | Defined$ You | LifeAmount$ N'.  It fails for a clause with
\* a comma, of which the trigger is only the part before the comma.
C6_AnyAttackClause ==
    \A clause \in AttackClauses, n \in Amounts :
       (ParseDone /\ text = GainLifeText(clause, n)
           /\ ~Contains(Lower(clause), "enters the battlefield")
           /\ ~Contains(Lower(clause), " dies")) =>
          /\ Len(ability_lines) = 1
          /\ StartsWith(ability_lines[1], "T:")
          /\ Contains(ability_lines[1], "Mode$ Attacks")
          /\ Contains(ability_lines[1], "Execute$ Effect1")
          /\ svar_lines = <<"SVar:Effect1:GainLife | Defined$ You | LifeAmount$ " \o n>>

\* ------------------------------------------------------------------------
\* C7: life lost at the beginning of the upkeep
\* ------------------------------------------------------------------------

\* C7, as stated: the text "At the beginning of your upkeep, you lose N life."
\* compiles to exactly one T: line with 'Phase$ Upkeep' and exactly one SVar line,
\* which defines a LoseLife effect of amount N and is the one the T: line executes.
\* It fails: the effect table looks for 'loses', which 'you lose' does not contain,
\* so the block is dropped after a name has been allocated.
C7_UpkeepLoseLife ==
    \A n \in Amounts :
       (ParseDone /\ text = "At the beginning of your upkeep, you lose " \o n \o " life.") =>
          /\ Len(ability_lines) = 1
          /\ StartsWith(ability_lines[1], "T:")
          /\ Contains(ability_lines[1], "Phase$ Upkeep")
          /\ Len(svar_lines) = 1
          /\ Contains(svar_lines[1], ":LoseLife")
          /\ Contains(svar_lines[1] \o " ", "LifeAmount$ " \o n \o " ")
          /\ WordAfter(ability_lines[1], "Execute$ ") = SvarNameOf(svar_lines[1])

\* The text of C7 was compiled for N = 2 and left no line, the counter standing at 1.
C7_Witness ==
    /\ ParseDone
    /\ text = "At the beginning of your upkeep, you lose 2 life."
    /\ ability_lines = <<>>
    /\ svar_lines = <<>>
    /\ svar_counter = 1

\* ------------------------------------------------------------------------
\* C8: activated abilities
\* ------------------------------------------------------------------------

RECURSIVE CostWordsFrom(_, _, _)
\* The words of the cost text c from index i on, `word` being the word read so far:
\* an opening brace is left out, a closing brace or a whitespace character ends a
\* word.
CostWordsFrom(c, i, word) ==
    IF i > Len(c) THEN (IF word = "" THEN <<>> ELSE <<word>>)
    ELSE IF Ch(c, i) = "}" \/ IsSpace(Ch(c, i))
         THEN (IF word = "" THEN <<>> ELSE <<word>>) \o CostWordsFrom(c, i + 1, "")
         ELSE IF Ch(c, i) = "{" THEN CostWordsFrom(c, i + 1, word)
              ELSE CostWordsFrom(c, i + 1, word \o Ch(c, i))

\* The cost text with every opening brace removed and every closing brace turned into
\* a space, without leading or trailing whitespace, whitespace runs being one space.
ExpectedCost(c) == Join(CostWordsFrom(c, 1, ""), " ")

\* The cost text with its braces removed.
BracesRemoved(c) == Replace(Replace(c, "{", ""), "}", "")

\* The block the loop of parse_abilities is about to compile.
CurrentBlock == Strip(ability_blocks[block_i])

\* The effect the clause of the activated block b resolves to, None when it does not.
ActivatedEffect(b) == parse_effect_to_ability(Strip(ActivatedMatch(b).g2))

\* The directive of the activated block b.
ExpectedActivatedLine(b) ==
    "A:AB$ " \o ActivatedEffect(b) \o " | Cost$ " \o ExpectedCost(ActivatedMatch(b).g1)
    \o " | SpellDescription$ " \o Prefix(b, 100)

\* The loop compiles an activated block whose effect clause resolves and whose cost
\* is not empty: one A: line is appended, no SVar line, and the counter stays.
C8_ActivatedStep ==
    (/\ pc = "blocks"
     /\ block_i <= Len(ability_blocks)
     /\ block_i' = block_i + 1
     /\ Category(CurrentBlock) = "Activated"
     /\ ActivatedEffect(CurrentBlock) # None
     /\ ExpectedCost(ActivatedMatch(CurrentBlock).g1) # "") =>
        /\ ability_lines' = Append(ability_lines, ExpectedActivatedLine(CurrentBlock))
        /\ svar_lines' = svar_lines
        /\ svar_counter' = svar_counter

\* The text "{T}: Draw a card." compiles to one A: line of cost 'T' and effect
\* 'Draw | Defined$ You | NumCards$ 1'.
C8_DrawExample ==
    (ParseDone /\ text = "{T}: Draw a card.") =>
       /\ ability_lines = <<"A:AB$ Draw | Defined$ You | NumCards$ 1 | Cost$ T"
                             \o " | SpellDescription$ {T}: Draw a card.">>
       /\ svar_lines = <<>>
       /\ svar_counter = 0

\* C8, amended: a block "{C}: <effect>." dispatched as activated, whose effect clause
\* resolves, compiles to exactly one line 'A:AB$ <effect> | Cost$ <cost> |
\* SpellDescription$ <first 100 characters of the block>', where <cost> is C with
\* every '{' removed and every '}' turned into a space, trimmed, whitespace runs
\* collapsed to one space (so "{2}{T}" gives '2 T'), provided that cost is not empty;
\* it emits no SVar line and leaves the counter as it was; for "{T}: Draw a card."
\* the cost is 'T' and the effect is 'Draw | Defined$ You | NumCards$ 1'.
C8_ActivatedAbility == []C8_DrawExample /\ [][C8_ActivatedStep]_vars

\* A card with a cost of two symbols was compiled into one A: line.
C8_Witness ==
    /\ ParseDone
    /\ text = "{1}, {T}: You gain 2 life."
    /\ ability_lines = <<"A:AB$ GainLife | Defined$ You | LifeAmount$ 2 | Cost$ 1 , T"
                          \o " | SpellDescription$ {1}, {T}: You gain 2 life.">>
    /\ svar_lines = <<>>
    /\ svar_counter = 0

\* C8, as stated: the A: line of an activated block whose effect resolves carries the
\* cost text with its braces removed.  It fails for a cost of more than one symbol:
\* "{2}{T}" gives 'Cost$ 2 T'.
C8_CostIsBracesRemoved ==
    (/\ ParseDone
     /\ Len(ability_blocks) = 1
     /\ Category(Strip(text)) = "Activated"
     /\ ActivatedEffect(Strip(text)) # None) =>
        /\ Len(ability_lines) = 1
        /\ StartsWith(ability_lines[1], "A:AB$ " \o ActivatedEffect(Strip(text)) \o " | Cost$ "
                                        \o BracesRemoved(ActivatedMatch(Strip(text)).g1) \o " | ")
        /\ svar_lines = <<>>
        /\ svar_counter = 0

\* ------------------------------------------------------------------------
\* C9: the mana-cost tokenizer
\* ------------------------------------------------------------------------

IsColour(c) == c \in {"W", "U", "B", "R", "G"}

\* A hybrid symbol X/Y starts at index i of s.
HybridAt(s, i) ==
    i + 2 <= Len(s) /\ IsColour(Ch(s, i)) /\ Ch(s, i + 1) = "/" /\ IsColour(Ch(s, i + 2))

RECURSIVE ManaReference(_, _)
\* The tokens of s from index i on, read left to right: a hybrid symbol is one token,
\* any other digit or colour letter is a token, any other character is dropped.
ManaReference(s, i) ==
    IF i > Len(s) THEN <<>>
    ELSE IF HybridAt(s, i) THEN <<SubSeq(s, i, i + 2)>> \o ManaReference(s, i + 3)
         ELSE IF IsColour(Ch(s, i)) \/ Ch(s, i) \in {"0", "1", "2", "3", "4", "5", "6", "7", "8", "9"}
              THEN <<Ch(s, i)>> \o ManaReference(s, i + 1)
              ELSE ManaReference(s, i + 1)

\* What holds while parse_mana_cost runs and when it has returned.
C9_Tokens ==
    /\ mana_iters <= Len(mana_str)
    /\ pc = "mana" =>
          /\ mana_i <= Len(mana_str) + 1
          /\ mana_iters <= mana_i - 1
          /\ mana_result \o ManaReference(mana_str, mana_i) = ManaReference(mana_str, 1)
    /\ pc = "mana_done" =>
          /\ mana_out = Join(ManaReference(mana_str, 1), " ")
          /\ mana_str = "2U/B" => mana_out = "2 U/B"

\* Every iteration of the loop moves the index forward.
C9_IndexIncreases ==
    (mana_iters' # mana_iters \/ mana_i' # mana_i) =>
       (mana_iters' = mana_iters + 1 /\ mana_i' > mana_i)

\* C9: parse_mana_cost reads the cost string left to right; it returns the hybrid
\* symbols X/Y (X, Y in WUBRG) as one token each and every other digit or colour
\* letter as a token of its own, in input order, joined by single spaces, every other
\* character being dropped; "2U/B" gives "2 U/B"; the index increases at every
\* iteration and the loop ends after at most len(input) iterations.
C9_ManaTokenizer == []C9_Tokens /\ [][C9_IndexIncreases]_vars

\* parse_mana_cost has returned "2 U/B" for "2U/B", after two iterations.
C9_Witness ==
    /\ pc = "mana_done"
    /\ mana_str = "2U/B"
    /\ mana_out = "2 U/B"
    /\ mana_iters = 2

\* ------------------------------------------------------------------------
\* C10: the order of the lines of a card
\* ------------------------------------------------------------------------

\* The place of a directive in the fixed order of a card's lines, 0 for a line that
\* is no directive.
LineRank(line) ==
    IF StartsWith(line, "Name:") THEN 1
    ELSE IF StartsWith(line, "ManaCost:") THEN 2
    ELSE IF StartsWith(line, "Types:") THEN 3
    ELSE IF StartsWith(line, "PT:") THEN 4
    ELSE IF StartsWith(line, "Loyalty:") THEN 5
    ELSE IF IsAbilityLine(line) THEN 6
    ELSE IF IsSvarLine(line) THEN 7
    ELSE IF StartsWith(line, "Oracle:") THEN 8
    ELSE 0

\* q is the start of r.
IsPrefix(q, r) == Len(q) <= Len(r) /\ SubSeq(r, 1, Len(q)) = q

\* The lines of a converted card: each is a directive; a header directive occurs at
\* most once and in the fixed order; the ability lines follow, then the SVar lines,
\* then the one Oracle line; the ability lines and the SVar lines are those of the
\* parser, in its order; the text returned is these lines joined by line breaks.
C10_Layout ==
    CardDone =>
       /\ \A i \in 1..Len(output) : LineRank(output[i]) > 0
       /\ LineRank(output[1]) = 1
       /\ LineRank(output[Len(output)]) = 8
       /\ \A i \in 1..(Len(output) - 1) :
             /\ LineRank(output[i]) <= LineRank(output[i + 1])
             /\ LineRank(output[i]) < 6 => LineRank(output[i]) < LineRank(output[i + 1])
             /\ LineRank(output[i]) < 8
       /\ SelectSeq(output, IsAbilityLine) = ability_lines
       /\ SelectSeq(output, IsSvarLine) = svar_lines
       /\ forge_text = Join(output, "\n")

\* A block of the loop only adds lines after those of the blocks before it.
C10_AppendOnly ==
    (pc = "blocks" /\ pc' = "blocks") =>
       /\ IsPrefix(ability_lines, ability_lines')
       /\ IsPrefix(svar_lines, svar_lines')
       /\ \A i \in 1..Len(ability_lines') : IsAbilityLine(ability_lines'[i])
       /\ \A i \in 1..Len(svar_lines') : IsSvarLine(svar_lines'[i])

\* C10: in every output of convert_card the lines are, in this order, the header
\* lines (Name, ManaCost, Types, PT, Loyalty), all the T:/A:/S: ability lines, all the
\* SVar: lines, and exactly one Oracle: line, which is the last; no SVar: line comes
\* before an ability line; the ability lines are in the order of the blocks that
\* produced them.
C10_LineOrder == []C10_Layout /\ [][C10_AppendOnly]_vars

\* A card with Name, ManaCost, Types and PT lines, ability lines of two blocks and an
\* SVar line was converted.
C10_Witness ==
    /\ CardDone
    /\ Len(ability_blocks) >= 2
    /\ Len(ability_lines) >= 2
    /\ svar_lines # <<>>
    /\ \E i \in 1..Len(output) : LineRank(output[i]) = 4
    /\ LineRank(output[2]) = 2

\* ------------------------------------------------------------------------
\* C11: a block that is dropped leaves nothing behind
\* ------------------------------------------------------------------------

\* The loop of parse_abilities is about to compile a block.
AtBlock == pc = "blocks" /\ block_i <= Len(ability_blocks)

\* The parser as the block about to be compiled will leave it.
AfterCurrentBlock == parse_ability_block(Parser, ability_blocks[block_i])

\* C11, as stated: a block that adds no T:/A:/S: line to ability_lines adds no line to
\* svar_lines either.  It fails for a modal block whose prefix names a trigger that
\* _extract_trigger does not know: the SVar lines of the choices and of the list of
\* choices are appended before the trigger is looked at.
C11_DroppedBlockLeavesNoSvar ==
    AtBlock =>
       (AfterCurrentBlock.ability_lines = ability_lines
           => AfterCurrentBlock.svar_lines = svar_lines)

\* A modal block with an unknown trigger was compiled: no ability line, two SVar
\* lines.
C11_Witness ==
    /\ ParseDone
    /\ text = "Whenever you dance, Choose one -\n- Draw a card."
    /\ ability_lines = <<>>
    /\ svar_lines = <<"SVar:Choice12:Draw | Defined$ You | NumCards$ 1", "SVar:Choices1:Choice12">>

\* ------------------------------------------------------------------------
\* C12: cards without a name
\* ------------------------------------------------------------------------

\* The card records without a name among the first n of the document.
NamelessAmong(n) == {k \in 1..n : Strip(main_cards[k].name) = ""}

\* C12, as stated: when main ends, total_cards + skipped_cards is the number of card
\* records found, the 'Skipped:' figure is the number of records without a name, and
\* no file was written for such a record.  It fails: a record without a name leaves
\* the loop by `continue` before skipped_cards is touched, and convert_card returns a
\* text for every record with a name, so skipped_cards stays 0.
C12_NamelessCardsCounted ==
    pc = "main_done" =>
       /\ summary[2] + summary[3] = summary[1]
       /\ summary[1] = Len(main_cards)
       /\ summary[3] = Cardinality(NamelessAmong(Len(main_cards)))
       /\ Len(files) = Len(main_cards) - Cardinality(NamelessAmong(Len(main_cards)))

\* main has ended on a document of three records, one of them without a name: two
\* files written, nothing counted as skipped.
C12_Witness ==
    /\ pc = "main_done"
    /\ Len(main_cards) = 3
    /\ Cardinality(NamelessAmong(3)) = 1
    /\ summary = <<3, 2, 0>>
    /\ Len(files) = 2

\* ------------------------------------------------------------------------
\* C13: entities of the rules text
\* ------------------------------------------------------------------------

\* The line holds one of the three entities convert_card decodes.
HasEntity(line) ==
    Contains(line, "&apos;") \/ Contains(line, "&quot;") \/ Contains(line, "&amp;")

\* C13, as stated: the text parse_abilities compiles is the decoded text the Oracle
\* line is written from, and no T:/A:/S:/SVar: line of a card holds '&apos;', '&quot;'
\* or '&amp;'.  It fails: convert_card calls parse_abilities on the text as read and
\* decodes it afterwards, for the Oracle line only.
C13_DecodedBeforeParsing ==
    CardDone =>
       /\ output[Len(output)] = "Oracle:" \o escape_forge_text(text)
       /\ \A i \in 1..Len(output) :
             (IsAbilityLine(output[i]) \/ IsSvarLine(output[i])) => ~HasEntity(output[i])

\* A card whose text holds '&amp;' was converted: its T: line holds the entity, its
\* Oracle line holds the character.
C13_Witness ==
    /\ CardDone
    /\ text = "Whenever Bob &amp; Co attacks, you gain 1 life."
    /\ Contains(ability_lines[1], "Whenever Bob &amp; Co attacks")
    /\ output[Len(output)] = "Oracle:Whenever Bob & Co attacks, you gain 1 life."

\* ------------------------------------------------------------------------
\* C14: the choice variables of a modal ability
\* ------------------------------------------------------------------------

\* The choices parse_modal_ability extracts from the stripped block t, 'Choose ...'
\* starting at index i (0: no match).
ChoicesAt(t, i) == extract_modal_choices(IF i = 0 THEN t ELSE Strip(From(t, i)))

\* The choices of the block about to be parsed.
CurrentChoices == ChoicesAt(CurrentBlock, ChooseStart(CurrentBlock))

\* The lines of q after the first n.
LinesAfter(q, n) == SubSeq(q, n + 1, Len(q))

\* The names an aggregate 'SVar:Choices<k>:a,b,...' line lists.
ListedNames(line) == SplitOn(From(line, Find(line, ":", 6) + 1), ",")

\* The names list the choices, one each, and each name is defined by exactly one line
\* of q, which holds the effect its choice resolves to.
NamesHoldChoices(q, names, choices) ==
    /\ Len(names) = Len(choices)
    /\ \A k \in 1..Len(names) :
          /\ Cardinality(DefinedAt(q, names[k])) = 1
          /\ \A j \in DefinedAt(q, names[k]) :
                q[j] = "SVar:" \o names[k] \o ":" \o parse_effect_to_ability(choices[k])

\* The lines new_svars / new_abilities a modal block of these choices added, within
\* the SVar lines q of the parser.  'CharmNum$ n' is looked for on the ability line
\* and on the SVar line a triggered charm executes, where the code writes it.
ModalLinesHold(q, new_svars, new_abilities, choices) ==
    /\ Cardinality({j \in 1..Len(new_svars) : StartsWith(new_svars[j], "SVar:Choices")}) = 1
    /\ \A j \in 1..Len(new_svars) :
          StartsWith(new_svars[j], "SVar:Choices")
             => NamesHoldChoices(q, ListedNames(new_svars[j]), choices)
    /\ new_abilities # <<>>
    /\ \/ \E a \in 1..Len(new_abilities) :
             Contains(new_abilities[a], "CharmNum$ " \o ToString(Len(choices)))
       \/ \E j \in 1..Len(new_svars) :
             Contains(new_svars[j], "CharmNum$ " \o ToString(Len(choices)))

\* The same, for the parser `after` the block.
ModalBlockHolds(after, choices) ==
    ModalLinesHold(after.svar_lines, LinesAfter(after.svar_lines, Len(svar_lines)),
                   LinesAfter(after.ability_lines, Len(ability_lines)), choices)

\* C14, as stated: a modal block of n >= 1 extracted choices adds one aggregate
\* 'SVar:Choices<k>:' line listing n names in choice order and an ability line with
\* 'CharmNum$ n', and each listed name is defined by exactly one SVar line holding
\* that choice's resolved effect.  It fails: a choice whose effect does not resolve is
\* listed and never defined.
C14_ChoiceVariablesDefined ==
    (AtBlock /\ CurrentBlock # "" /\ Category(CurrentBlock) = "Modal"
        /\ CurrentChoices # <<>>)
       => ModalBlockHolds(AfterCurrentBlock, CurrentChoices)

\* A modal ability of two choices was compiled, the second one unresolvable: the
\* aggregate line lists Choice23, which no line defines.
C14_Witness ==
    /\ ParseDone
    /\ text = "Choose one " \o EmDash \o "\n" \o Bullet \o " Draw a card.\n" \o Bullet \o " Dance."
    /\ svar_lines = <<"SVar:Choice12:Draw | Defined$ You | NumCards$ 1",
                      "SVar:Choices1:Choice12,Choice23">>
    /\ Contains(ability_lines[1], "CharmNum$ 2 | Choices$ Choices1")

\* ------------------------------------------------------------------------
\* C15: the ordered decision list of parse_ability_block
\* ------------------------------------------------------------------------

\* The eight rules of the decision list, in order, as truth values for the block b.
RuleList(b) ==
    << Contains(b, "Choose") /\ (Contains(b, EmDash) \/ Contains(b, "-")),
       StartsWith(b, "Whenever "),
       StartsWith(b, "When "),
       StartsWith(b, "At the beginning of "),
       Contains(b, "Upkeep" \o EmDash) \/ Contains(b, "Upkeep:"),
       LooksActivated(b),
       LooksStatic(b),
       TRUE >>

\* The position of the first rule of the list that holds.
FirstOf(rules) == CHOOSE k \in 1..Len(rules) : rules[k] /\ \A j \in 1..(k - 1) : ~rules[j]

\* The parser after the handler of rule k alone has compiled the block b.
HandledBy(p, b, k) ==
    CASE k = 1 -> parse_modal_ability(p, b)
      [] k = 2 -> parse_whenever_ability(p, b)
      [] k = 3 -> parse_when_ability(p, b)
      [] k = 4 -> parse_beginning_ability(p, b)
      [] k = 5 -> parse_upkeep_ability(p, b)
      [] k = 6 -> parse_activated_ability(p, b)
      [] k = 7 -> parse_static_ability(p, b)
      [] OTHER -> parse_spell_effect(p, b)

\* The number of rules that hold for the block b.
RulesHolding(b) == Cardinality({k \in 1..8 : RuleList(b)[k]})

\* A step of the loop leaves the parser as the handler of the first rule that holds
\* leaves it, and no other handler has acted.
C15_DispatchStep ==
    (/\ pc = "blocks"
     /\ block_i <= Len(ability_blocks)
     /\ block_i' = block_i + 1
     /\ CurrentBlock # "") =>
        Parser' = HandledBy(Parser, CurrentBlock, FirstOf(RuleList(CurrentBlock)))

\* The two blocks that match several rules: the 'Whenever ' block with 'Choose' and a
\* hyphen becomes a charm and nothing else, the '{cost}:' block with 'has ' becomes
\* one A: line and no S: line.
C15_Examples ==
    /\ (ParseDone
          /\ text = "Whenever this creature attacks, Choose one -\n- Draw a card.\n- Mill 2 cards.")
        => /\ Len(ability_lines) = 1
           /\ Contains(ability_lines[1], "Execute$ CharmEffect4")
           /\ Len(svar_lines) = 4
    /\ (ParseDone /\ text = "{T}: You gain 1 life for each creature that has flying.")
        => /\ Len(ability_lines) = 1
           /\ StartsWith(ability_lines[1], "A:AB$ GainLife | Defined$ You | LifeAmount$ 1 | Cost$ T")
           /\ svar_lines = <<>>

\* C15: parse_ability_block gives every non-empty block to exactly one handler, that
\* of the first rule that holds in the order modal ('Choose' with an em dash or a
\* hyphen), 'Whenever ' prefix, 'When ' prefix, 'At the beginning of ' prefix, upkeep
\* marker, '{cost}:' prefix, static keyword set, else spell effect; a block for which
\* several rules hold is compiled by the earliest rule only.
C15_FirstMatchWins == []C15_Examples /\ [][C15_DispatchStep]_vars

\* The '{cost}:' block that contains 'has ' was compiled: three rules hold for it
\* (activated, static, spell) and its only line is the A: line.
C15_Witness ==
    /\ ParseDone
    /\ text = "{T}: You gain 1 life for each creature that has flying."
    /\ RulesHolding(text) = 3
    /\ Len(ability_lines) = 1
    /\ StartsWith(ability_lines[1], "A:AB$ GainLife")

\* ------------------------------------------------------------------------
\* C16: the timing phrases of a periodic block
\* ------------------------------------------------------------------------

\* The timing phrase of the periodic block b, lowered as the handler lowers it.
TimingOf(b) == Lower(Strip(BeginningMatch(b).g1))

\* The effect the clause of the periodic block b resolves to, None when it does not.
PeriodicEffect(b) == parse_effect_to_ability(Strip(BeginningMatch(b).g2))

\* The phase tag the phrase table of the specification gives the timing, None when
\* no phrase of the table occurs in it.
StatedPhase(timing) ==
    IF Contains(timing, "upkeep") THEN "Upkeep"
    ELSE IF Contains(timing, "combat") THEN "BeginCombat"
    ELSE IF Contains(timing, "end step") THEN "EndOfTurn"
    ELSE IF Contains(timing, "end of turn") THEN "EndOfTurn"
    ELSE None

\* The parser `after` a periodic block of phase tag `phase` (None: unmapped timing).
PeriodicHolds(after, phase) ==
    IF phase = None
    THEN /\ after.ability_lines = ability_lines
         /\ after.svar_lines = svar_lines
         /\ after.svar_counter = svar_counter
    ELSE /\ Len(after.ability_lines) = Len(ability_lines) + 1
         /\ StartsWith(after.ability_lines[Len(after.ability_lines)],
                       "T:Mode$ Phase | Phase$ " \o phase \o " | Execute$ ")

\* C16, as stated: a periodic block "At the beginning of <timing>, <effect>" whose
\* effect resolves emits a T: line exactly when the timing holds 'upkeep', 'combat',
\* 'end step' or 'end of turn', with phase tag Upkeep, BeginCombat, EndOfTurn and
\* EndOfTurn; for any other timing it emits no line and leaves the counter.  It
\* fails: the handler's table has no 'end of turn'.
C16_PeriodicPhases ==
    (AtBlock /\ CurrentBlock # "" /\ Category(CurrentBlock) = "Beginning"
        /\ BeginningMatch(CurrentBlock).ok /\ PeriodicEffect(CurrentBlock) # None)
       => PeriodicHolds(AfterCurrentBlock, StatedPhase(TimingOf(CurrentBlock)))

\* The block with the timing 'the end of turn' and a resolvable effect was compiled
\* and left nothing.
C16_Witness ==
    /\ ParseDone
    /\ text = "At the beginning of the end of turn, draw a card."
    /\ PeriodicEffect(text) = "Draw | Defined$ You | NumCards$ 1"
    /\ ability_lines = <<>>
    /\ svar_lines = <<>>
    /\ svar_counter = 0

\* ------------------------------------------------------------------------
\* C17: the order of the effect rules
\* ------------------------------------------------------------------------

\* The seventeen predicates of the resolver in the stated order, as truth values for
\* the lower-cased clause.
EffectRules(lower) ==
    << Contains(lower, "you gain") /\ Contains(lower, "life"),
       Contains(lower, "loses") /\ Contains(lower, "life") /\ Contains(lower, "opponent"),
       Contains(lower, "loses") /\ Contains(lower, "life"),
       Contains(lower, "draw"),
       Contains(lower, "deals") /\ Contains(lower, "damage"),
       Contains(lower, "create") /\ Contains(lower, "token"),
       Contains(lower, "discard"),
       Contains(lower, "mill"),
       Contains(lower, "counter") /\ Contains(lower, "spell"),
       Contains(lower, "tap") /\ Contains(lower, "target"),
       Contains(lower, "untap"),
       Contains(lower, "scry"),
       Contains(lower, "surveil"),
       Contains(lower, "put") /\ Contains(lower, "counter"),
       Contains(lower, "sacrifice"),
       Contains(lower, "search") /\ Contains(lower, "library"),
       Contains(lower, "return") /\ Contains(lower, "graveyard")
           /\ Contains(lower, "battlefield") >>

\* How the effect of each kind begins, in the same order.
EffectKinds ==
    << "GainLife | ", "LoseLife | Defined$ EachOpponent | ", "LoseLife | Defined$ You | ",
       "Draw | ", "DealDamage | ", "Token | ", "Discard | ", "Mill | ", "Counter | ",
       "Tap | ", "Untap | ", "Scry | ", "Surveil | ", "PutCounter | ", "Sacrifice | ",
       "ChangeZone | Origin$ Library | ", "ChangeZone | Origin$ Graveyard | " >>

\* The positions of the rules that hold.
Holding(rules) == {k \in 1..Len(rules) : rules[k]}

\* The effect `result` is of the kind of the first rule of `rules` that holds, and
\* None when none holds.
FirstKind(result, rules) ==
    IF Holding(rules) = {} THEN result = None
    ELSE result # None /\ StartsWith(result, EffectKinds[FirstOf(rules)])

\* C17: parse_effect_to_ability returns the effect kind of the first predicate that
\* holds on the lower-cased clause, in the order GainLife, LoseLife (opponent),
\* LoseLife, Draw, DealDamage, Token, Discard, Mill, Counter, Tap, Untap, Scry,
\* Surveil, PutCounter, Sacrifice, SearchLibrary, ReturnFromGraveyard, and None
\* exactly when none holds; 'draw a card and you gain 2 life' gives GainLife.
C17_FirstRuleDecides ==
    pc = "effect_done" =>
       /\ FirstKind(returned, EffectRules(Lower(text)))
       /\ text = "draw a card and you gain 2 life"
             => returned = "GainLife | Defined$ You | LifeAmount$ 2"

\* The clause for which the Draw rule and the GainLife rule both hold was resolved.
C17_Witness ==
    /\ pc = "effect_done"
    /\ text = "draw a card and you gain 2 life"
    /\ Holding(EffectRules(Lower(text))) = {1, 4}
    /\ returned = "GainLife | Defined$ You | LifeAmount$ 2"

\* ------------------------------------------------------------------------
\* C18: 'untap' and 'tap'
\* ------------------------------------------------------------------------

\* The clause is a single one whose action word is 'untap'.
UntapClause(clause) == clause \in SimpleClauses /\ StartsWith(Lower(clause), "untap ")

\* C18, as stated: a clause whose action word is 'untap', with or without the word
\* 'target', resolves to the Untap kind and never to the Tap kind.  It fails: the Tap
\* rule ('tap' and 'target' both occur) is tried first and holds for 'untap target
\* creature'.
C18_UntapIsUntap ==
    (pc = "effect_done" /\ UntapClause(text)) =>
       /\ returned # None
       /\ StartsWith(returned, "Untap | ")
       /\ ~StartsWith(returned, "Tap | ")

\* The clause 'untap target creature' was resolved, to the Tap kind.
C18_Witness ==
    /\ pc = "effect_done"
    /\ text = "untap target creature"
    /\ returned = "Tap | ValidTgts$ Creature | TgtPrompt$ Select target creature"

\* ------------------------------------------------------------------------
\* C19: the magnitude of an effect
\* ------------------------------------------------------------------------

\* The parameters that carry the magnitude extract_number returned.
MagnitudeKeys ==
    {"LifeAmount$ ", "NumCards$ ", "NumDmg$ ", "TokenAmount$ ", "ScryNum$ ", "CounterNum$ "}

\* The effect carries an extracted magnitude: every kind with one of the parameters
\* but Discard, whose NumCards$ is fixed.
HasMagnitude(result) ==
    /\ result # None
    /\ ~StartsWith(result, "Discard | ")
    /\ \E key \in MagnitudeKeys : Contains(result, key)

\* The magnitudes the effect carries (one, when it carries any).
MagnitudesOf(result) ==
    {WordAfter(result, key) : key \in {k \in MagnitudeKeys : Contains(result, k)}}

\* The magnitude as stated: the first integer literal of the clause, at index m when
\* m > 0, else the number word found in the lower-cased clause, else 1.
StatedMagnitude(clause, m, lower) ==
    IF m # 0 THEN SubSeq(clause, m, m + DigitRun(clause, m) - 1)
    ELSE IF Contains(lower, "a ") \/ Contains(lower, "one ") THEN "1"
    ELSE IF Contains(lower, "two ") THEN "2"
    ELSE IF Contains(lower, "three ") THEN "3"
    ELSE "1"

\* The index of the first decimal digit of the clause, 0 when it has none.
FirstDigit(clause) == MinOrZero({i \in 1..Len(clause) : IsDigit(Ch(clause, i))})

\* C19, as stated: the magnitude of a resolved effect is the first integer literal of
\* the clause, else 1 for 'a'/'one', 2 for 'two', 3 for 'three', else 1; 'Create 2
\* Food tokens' gives TokenAmount$ 2 and 'draw two cards' gives NumCards$ 2.  It
\* fails: with a keyword, extract_number only takes an integer that the keyword
\* follows directly.
C19_FirstIntegerLiteral ==
    (pc = "effect_done" /\ text \in SimpleClauses /\ HasMagnitude(returned)) =>
       MagnitudesOf(returned) = {StatedMagnitude(text, FirstDigit(text), Lower(text))}

\* 'Create 2 Food tokens' was resolved, with TokenAmount$ 1; 'draw two cards'
\* resolves with NumCards$ 2.
C19_Witness ==
    /\ pc = "effect_done"
    /\ text = "Create 2 Food tokens"
    /\ returned = "Token | TokenScript$ food | TokenAmount$ 1"
    /\ parse_effect_to_ability("draw two cards") = "Draw | Defined$ You | NumCards$ 2"

\* ------------------------------------------------------------------------
\* C20: the order of the SVar lines
\* ------------------------------------------------------------------------

\* The prefixes get_next_svar_name is called with for a block of n choices.
NamePrefixes(n) ==
    {"Effect", "UpkeepEffect", "CharmEffect", "Choices"}
        \cup {"Choice" \o ToString(i) : i \in 1..n}

\* The counter values in lo..hi the name may have been issued at.
IssuedAt(name, lo, hi, n) ==
    {k \in lo..hi : \E prefix \in NamePrefixes(n) : name = prefix \o ToString(k)}

\* The SVar lines a block added, the counter going from c to c2 and the block having
\* n choices, define their names in the order the names were issued.
InAllocationOrder(new_svars, c, c2, n) ==
    \A a, b \in 1..Len(new_svars) :
       a < b => \A ka \in IssuedAt(SvarNameOf(new_svars[a]), c + 1, c2, n) :
                \A kb \in IssuedAt(SvarNameOf(new_svars[b]), c + 1, c2, n) : ka < kb

\* The same, for the parser `after` the block.
BlockInAllocationOrder(after, n) ==
    InAllocationOrder(LinesAfter(after.svar_lines, Len(svar_lines)),
                      svar_counter, after.svar_counter, n)

\* C20, as stated: SVar lines appear in allocation order, a name issued earlier in
\* the pass being defined above a name issued later, the aggregate 'Choices' name and
\* the per-choice names of a modal block included.  It fails: the aggregate name is
\* issued before the names of the choices and its line is appended after theirs.
C20_SvarAllocationOrder ==
    (AtBlock /\ CurrentBlock # "") =>
       BlockInAllocationOrder(AfterCurrentBlock,
                              IF Category(CurrentBlock) = "Modal" THEN Len(CurrentChoices) ELSE 0)

\* A modal ability of two resolvable choices was compiled: the line of Choices1, issued
\* first, stands below the lines of Choice12 and Choice23.
C20_Witness ==
    /\ ParseDone
    /\ text = "Choose one -\n- Draw a card.\n- You gain 2 life."
    /\ svar_lines = <<"SVar:Choice12:Draw | Defined$ You | NumCards$ 1",
                      "SVar:Choice23:GainLife | Defined$ You | LifeAmount$ 2",
                      "SVar:Choices1:Choice12,Choice23">>

\* ------------------------------------------------------------------------
\* C21: one directive on every line of the card text
\* ------------------------------------------------------------------------

DirectivePrefixes ==
    {"Name:", "ManaCost:", "Types:", "PT:", "Loyalty:", "T:", "A:", "S:", "SVar:", "Oracle:"}

\* The indices at which the lines of the text s start: the first character and every
\* character after a line break.
LineStarts(s) == {i \in 1..Len(s) : i = 1 \/ Ch(s, i - 1) = "\n"}

\* A directive prefix stands in s at index i.
DirectiveAt(s, i) == \E prefix \in DirectivePrefixes : MatchAt(s, prefix, i)

\* C21, as stated: every line of the newline-joined text convert_card returns begins
\* with one of the prefixes Name:, ManaCost:, Types:, PT:, Loyalty:, T:, A:, S:, SVar:
\* or Oracle:, and no ability or SVar line holds a raw line break.  It fails: the
\* description of an ability line is cut from the block, line breaks included.
C21_OneDirectivePerLine ==
    CardDone =>
       /\ \A i \in LineStarts(forge_text) : DirectiveAt(forge_text, i)
       /\ \A k \in 1..Len(output) :
             (IsAbilityLine(output[k]) \/ IsSvarLine(output[k])) => ~Contains(output[k], "\n")

\* A card whose text is a modal ability on three lines was converted: its A: line
\* holds the two line breaks, and the returned text has a line that starts with
\* '- Draw a card.'.
C21_Witness ==
    /\ CardDone
    /\ text = "Choose one -\n- Draw a card.\n- You gain 2 life."
    /\ Contains(ability_lines[1], "SpellDescription$ Choose one -\n- Draw a card.\n- You gain 2 life.")
    /\ \E i \in LineStarts(forge_text) : MatchAt(forge_text, "- Draw a card.", i)
    /\ Contains(forge_text, "\nOracle:Choose one -\\n- Draw a card.\\n- You gain 2 life.")

\* ------------------------------------------------------------------------
\* C22: the TrigAbility variable of the first converter
\* ------------------------------------------------------------------------

\* The first convert_card has returned the text of a card.
Adv1Done == pc = "adv1_done" /\ forge_text # None

\* The positions of the lines of q that begin with the prefix.
LinesWith(q, prefix) == {k \in 1..Len(q) : StartsWith(q[k], prefix)}

\* C22, as stated: in the output of the first converter every T: line carries
\* 'Execute$ TrigAbility' and is matched by exactly one 'SVar:TrigAbility:' line of
\* the card; a trigger whose effect clause is not resolved emits no T: line, and a
\* card with several triggered abilities emits the name once.  It fails: the T entry
\* is kept whether or not the effect is resolved, and every ability writes its own
\* 'SVar:TrigAbility:' line.
C22_TrigAbilityDefinedOnce ==
    Adv1Done =>
       /\ \A k \in LinesWith(output, "T:") : Contains(output[k], "Execute$ TrigAbility")
       /\ LinesWith(output, "T:") # {}
             => Cardinality(LinesWith(output, "SVar:TrigAbility:")) = 1
       /\ \A k \in 1..Len(returned[1]) : returned[1][k].T # "" => returned[1][k].SVar # ""

\* A card whose only trigger has an unresolved effect was converted by the first
\* converter: it has its T: line and no SVar line.
C22_Witness ==
    /\ Adv1Done
    /\ text = "Whenever this creature attacks, you gain 1 life."
    /\ forge_text = "Name:Grizzly Bear\nManaCost:1 G\nTypes:Creature Bear\nPT:2/2\n"
                    \o "T:Mode$ Attacks | ValidCard$ Creature.YouCtrl | TriggerZones$ Battlefield"
                    \o " | Execute$ TrigAbility | TriggerDescription$ Whenever this creature attacks, you gain 1 life.\n"
                    \o "Oracle:Whenever this creature attacks, you gain 1 life."
    /\ LinesWith(output, "SVar:TrigAbility:") = {}

\* A card of two resolved triggers was converted by the first converter: the name
\* TrigAbility is defined by two lines.
C22_TwoTriggers ==
    /\ Adv1Done
    /\ text = "Whenever a Gnome attacks, draw a card. When Foo dies, draw a card."
    /\ Cardinality(LinesWith(output, "SVar:TrigAbility:")) = 2

\* ------------------------------------------------------------------------
\* C23: lines per block, and the counter against the SVar lines
\* ------------------------------------------------------------------------

\* The number of blocks of q that are not empty once stripped.
NonEmptyBlocks(q) == Cardinality({k \in 1..Len(q) : Strip(q[k]) # ""})

\* The counter equals the number of _get_next_svar_name calls since the reset, the
\* k-th of them having returned a name that ends with k; every SVar line defines a
\* name one of these calls returned, so the counter is never below the number of
\* SVar lines; and parse_abilities has returned at most as many ability lines as the
\* text has non-empty blocks.
C23_Counts ==
    /\ svar_counter = Len(issued)
    /\ \A k \in 1..Len(issued) :
          \E prefix \in NamePrefixes(k) : issued[k] = prefix \o ToString(k)
    /\ \A i \in 1..Len(svar_lines) :
          \E k \in 1..Len(issued) : SvarNameOf(svar_lines[i]) = issued[k]
    /\ svar_counter >= Len(svar_lines)
    /\ ParseDone => Len(returned[1]) <= NonEmptyBlocks(ability_blocks)

\* A step of the parser: a pass over a text starts with the counter at 0, no call
\* made and no line; a block adds at most one ability line, keeps the calls made
\* before it, raises the counter by exactly the number of calls it makes, and adds
\* no more SVar lines than it makes calls.
C23_BlockStep ==
    /\ (pc # "blocks" /\ pc' = "blocks")
          => (svar_counter' = 0 /\ issued' = <<>> /\ ability_lines' = <<>> /\ svar_lines' = <<>>)
    /\ (pc = "blocks" /\ block_i' = block_i + 1)
          => /\ Len(ability_lines') <= Len(ability_lines) + 1
             /\ IsPrefix(issued, issued')
             /\ svar_counter' - svar_counter = Len(issued') - Len(issued)
             /\ Len(issued') - Len(issued) >= Len(svar_lines') - Len(svar_lines)

\* C23: each ability block contributes at most one T:/A:/S: line, so that after
\* parse_abilities the number of ability lines is at most the number of non-empty
\* blocks of the text; svar_counter equals the number of _get_next_svar_name calls
\* made since the reset, in every state and over every block, and is never lower
\* than the number of SVar lines emitted.
C23_LinesAndCounter == []C23_Counts /\ [][C23_BlockStep]_vars

\* A text of two blocks was compiled: the first took a name and left no line, the
\* second left one ability line.
C23_Witness ==
    /\ ParseDone
    /\ text = "Whenever this creature attacks, dance. You gain 2 life."
    /\ Len(ability_blocks) = 2
    /\ Len(ability_lines) = 1
    /\ svar_lines = <<>>
    /\ issued = <<"Effect1">>
    /\ svar_counter = 1

====
